---- MODULE Spec2Model ----
(***************************************************************************)
(* Model of src/bot.py: the homework / conspect bot.                       *)
(*                                                                         *)
(* State: the three SQLite tables (users, submissions, miss_reasons), the  *)
(* four in-memory maps (pending, admin_pending, media_groups,              *)
(* reasons_pending), the position of the two scheduler jobs that have      *)
(* awaits inside their loops (process_media_groups, ask_missed_reason),    *)
(* the wall clock and the calendar day.                                    *)
(*                                                                         *)
(* Conventions.                                                            *)
(*  - A text (message text, caption, title, summary) is a sequence of      *)
(*    one-character strings, so that strip / lower / startswith / slicing  *)
(*    are computed as the code computes them.  Cyrillic literals are       *)
(*    transliterated; the emoji that starts a button label is "#".         *)
(*  - pending[uid] holds a reference into heap: the Python dicts are       *)
(*    objects, and media_groups[key]["pending_snapshot"] = pending.get(uid)*)
(*    stores the same object, not a copy.  A dict that neither pending nor *)
(*    an album entry refers to any more is freed (reference counting).     *)
(*  - uid keys: str(uid) / int(uid) are inverse bijections, a uid is kept  *)
(*    as the integer; the key f"{uid}|{mgid}" is the pair <<uid, mgid>>.   *)
(*  - The clock counts whole seconds; the quiet threshold of 1.5 s is kept  *)
(*    in tenths of a second (QuietTenths).                                 *)
(*  - message_id: every update (message or button press) takes the next    *)
(*    number of nextMsg; the bot's own replies take message ids as well,   *)
(*    so the ids of a user's messages increase with gaps.                  *)
(*  - One action is one run of a handler from an await-free stretch to the *)
(*    next await that another task can interleave with.                    *)
(***************************************************************************)
EXTENDS Integers, Sequences, FiniteSets, TLC

(***************************************************************************)
(* Bounds of the model                                                     *)
(***************************************************************************)
\* number of updates (messages and button presses) in one behaviour
MaxMsgs == 4
\* last second of a behaviour
MaxTime == 4

\* the chat users that send events; ADMIN_ID is one of them
Users == {1, 2}
\* the calendar days a behaviour goes through
Days == {1, 2}
\* the media_group_id values of album photos
MgIds == {"g1"}
\* no media_group_id: getattr(message, "media_group_id", None)
None == "None"

(***************************************************************************)
(* Configuration                                                           *)
(***************************************************************************)
ADMIN_ID == 1
\* now - entry['last_update'] > 1.5, in tenths of a second
QuietTenths == 15
\* scheduler.add_job(process_media_groups, "interval", seconds=2)
SweepSeconds == 2

(***************************************************************************)
(* Texts                                                                   *)
(***************************************************************************)
BTN_SEND_DZ == <<"#"," ","S","d","a","t"," ","D","Z">>
BTN_SEND_CONSPECT == <<"#"," ","S","d","a","t"," ","k","o","n","s","p","e","k","t">>
BTN_MY_CONSPECTS == <<"#"," ","M","o","i"," ","k","o","n","s","p","e","k","t","y">>
BTN_MAIN_MENU == <<"#"," ","G","l","a","v","n","o","e"," ","m","e","n","u">>
BTN_ADMIN_PANEL == <<"#"," ","A","d","m","i","n","-","p","a","n","e","l">>
BTN_STATS == <<"#"," ","S","t","a","t","i","s","t","i","k","a">>
CMD_START == <<"/","s","t","a","r","t">>
KW_DZ == <<"d","z">>
KW_CONSPECT == <<"k","o","n","s","p","e","k","t">>
ALBUM_TITLE == <<"A","l","b","o","m">>
PHOTO_SUMMARY == <<"F","o","t","o">>
ALBUM_OF == <<"A","l","b","o","m"," ","i","z"," ">>
ALBUM_PHOTOS == <<" ","f","o","t","o">>
ELLIPSIS == <<".",".",".">>
NO_SECTION == "Bez razdela"

\* str.lower() on the letters the inputs use
LowerChar(c) ==
    CASE c = "D" -> "d" [] c = "Z" -> "z" [] c = "K" -> "k" [] c = "S" -> "s"
      [] c = "G" -> "g" [] c = "M" -> "m" [] c = "A" -> "a" [] c = "N" -> "n"
      [] OTHER -> c

Lower(s) == [i \in 1..Len(s) |-> LowerChar(s[i])]

IsSpace(c) == c \in {" ", "\n", "\t"}

RECURSIVE LStrip(_)
LStrip(s) == IF s # <<>> /\ IsSpace(Head(s)) THEN LStrip(Tail(s)) ELSE s

RECURSIVE RStrip(_)
RStrip(s) ==
    IF s # <<>> /\ IsSpace(s[Len(s)]) THEN RStrip(SubSeq(s, 1, Len(s) - 1)) ELSE s

\* str.strip()
Strip(s) == RStrip(LStrip(s))

\* str.startswith(prefix)
StartsWith(s, prefix) ==
    Len(s) >= Len(prefix) /\ SubSeq(s, 1, Len(prefix)) = prefix

\* s[:n]
Take(s, n) == SubSeq(s, 1, IF Len(s) < n THEN Len(s) ELSE n)

\* s.split("\n", 1)[0]: s up to its first line break
FirstLine(s) ==
    LET breaks == {i \in 1..Len(s) : s[i] = "\n"}
    IN IF breaks = {} THEN s
       ELSE SubSeq(s, 1, (CHOOSE i \in breaks : \A j \in breaks : i <= j) - 1)

Digit(d) ==
    CASE d = 0 -> "0" [] d = 1 -> "1" [] d = 2 -> "2" [] d = 3 -> "3" [] d = 4 -> "4"
      [] d = 5 -> "5" [] d = 6 -> "6" [] d = 7 -> "7" [] d = 8 -> "8" [] d = 9 -> "9"

RECURSIVE IntToText(_)
\* str(n) of a natural number, as a text
IntToText(n) == IF n < 10 THEN <<Digit(n)>> ELSE IntToText(n \div 10) \o <<Digit(n % 10)>>

\* (text if len(text) <= 300 else text[:297] + "...")
TextSummary(text) == IF Len(text) <= 300 THEN text ELSE Take(text, 297) \o ELLIPSIS

\* (caption[:200] + "...") if len(caption) > 200 else caption or "Foto"
PhotoSummary(caption) ==
    IF Len(caption) > 200 THEN Take(caption, 200) \o ELLIPSIS
    ELSE IF caption # <<>> THEN caption ELSE PHOTO_SUMMARY

\* (caption[:200] + "...") if len(caption) > 200 else caption
CaptionSummary(caption) ==
    IF Len(caption) > 200 THEN Take(caption, 200) \o ELLIPSIS ELSE caption

\* low.startswith("dz") or low.startswith("konspekt")
HasKeyword(s) == StartsWith(Lower(s), KW_DZ) \/ StartsWith(Lower(s), KW_CONSPECT)

\* kind = "dz" if low.startswith("dz") else "conspect"
KeywordKind(s) == IF StartsWith(Lower(s), KW_DZ) THEN "dz" ELSE "conspect"

RECURSIVE JoinSemi(_)
\* ";".join(file_ids)
JoinSemi(ids) ==
    IF ids = <<>> THEN ""
    ELSE IF Len(ids) = 1 THEN ids[1]
    ELSE ids[1] \o ";" \o JoinSemi(Tail(ids))

\* message.photo[-1].file_id of the photo message with the given message id
FileId(mid) == "f" \o ToString(mid)

(***************************************************************************)
(* Topics                                                                  *)
(***************************************************************************)
T_op1 == <<"V","v","o","d","n","y","j"," ","u","r","o","k">>
T_op2 == <<"U","s","l","o","v","i","y","a"," ","i"," ","c","e","l","o","c","h","i","s","l","e","n","n","y","e"," ","o","p","e","r","a","t","o","r","y">>
T_op3 == <<"C","i","k","l"," ","f","o","r">>
T_op4 == <<"C","i","k","l"," ","w","h","i","l","e">>
T_op5 == <<"P","r","a","k","t","i","k","a",":"," ","c","i","k","l"," ","f","o","r"," ","i"," ","w","h","i","l","e">>
T_op6 == <<"S","t","r","o","k","i"," ","i"," ","s","r","e","z","y">>
T_op7 == <<"S","p","i","s","k","i"," ","i"," ","g","e","n","e","r","a","t","o","r","y">>
T_ege == <<"Z","a","d","a","n","i","e"," ">>
SEC_PYTHON == "Osnovy Pitona"
SEC_EGE == "EGE 1-27"

SECTIONS ==
    [s \in {SEC_PYTHON, SEC_EGE} |->
        IF s = SEC_PYTHON
        THEN << [id |-> "op1", title |-> T_op1, dz_allowed |-> TRUE],
                [id |-> "op2", title |-> T_op2, dz_allowed |-> FALSE],
                [id |-> "op3", title |-> T_op3, dz_allowed |-> TRUE],
                [id |-> "op4", title |-> T_op4, dz_allowed |-> TRUE],
                [id |-> "op5", title |-> T_op5, dz_allowed |-> FALSE],
                [id |-> "op6", title |-> T_op6, dz_allowed |-> FALSE],
                [id |-> "op7", title |-> T_op7, dz_allowed |-> TRUE] >>
        ELSE [n \in 1..27 |->
                [id |-> "ege" \o ToString(n), title |-> T_ege \o IntToText(n),
                 dz_allowed |-> TRUE]]]

\* SECTIONS.get(section, [])
TopicsOf(section) == IF section \in DOMAIN SECTIONS THEN SECTIONS[section] ELSE <<>>

\* the first topic of the section with this id, or NoTopic (the for/break of
\* cb_topic_choose)
NoTopic == [id |-> "", title |-> <<>>, dz_allowed |-> TRUE]

FindTopic(section, topic_id) ==
    LET ts == TopicsOf(section)
        hit == {i \in 1..Len(ts) : ts[i].id = topic_id}
    IN IF hit = {} THEN NoTopic
       ELSE ts[CHOOSE i \in hit : \A j \in hit : i <= j]

(***************************************************************************)
(* Inputs                                                                  *)
(***************************************************************************)
\* a free text that is no keyword, with blanks around it
TXT_PLAIN == <<" ","o","k"," ">>
\* a free text that starts with the homework keyword, in capitals, two lines
TXT_DZ == <<"D","Z"," ","1","\n","x">>
\* a caption that starts with the homework keyword
CAP_DZ == <<"D","z"," ","a">>

\* the texts of the text messages a user sends
TextInputs ==
    {CMD_START, BTN_SEND_DZ, BTN_SEND_CONSPECT, BTN_MAIN_MENU, BTN_STATS, TXT_PLAIN, TXT_DZ}
\* prefix followed by the letter x up to n characters
Padded(prefix, n) == prefix \o [i \in 1..(n - Len(prefix)) |-> "x"]
\* long messages: a text of exactly 300 characters, and a text and a caption of
\* 301 characters that start with a keyword (Telegram delivers texts of up to
\* 4096 and captions of up to 1024 characters)
TXT_300 == Padded(<<>>, 300)
TXT_LONG == Padded(<<"D","Z"," ">>, 301)
CAP_LONG == Padded(<<"D","z"," ">>, 301)
LongTextInputs == {TXT_300, TXT_LONG}
LongCaptionInputs == {CAP_LONG}
\* the captions of the photo messages a user sends (<<>>: message.caption is None)
CaptionInputs == {<<>>, CAP_DZ}
\* the callback data of the section buttons: "sec|<section>"
SectionInputs == {SEC_PYTHON, SEC_EGE}
\* the callback data of the topic buttons: "topic|<section>|<topic id>"; op2 has
\* dz_allowed False
TopicInputs == {<<SEC_PYTHON, "op2">>, <<SEC_EGE, "ege1">>}

\* the buttons of the admin panel: the callback data "admin|<action>"
AdminActions == {"new_report", "export_user", "delete_user", "reset_all", "cancel"}
\* what the admin types to name a user: an id, a username with @, a first name
\* in lower case, the id of nobody
TXT_ID_2 == <<"2">>
TXT_AT_USER1 == <<"@","u","s","e","r","1">>
TXT_NAME2 == <<"n","a","m","e","2">>
TXT_ID_9 == <<"9">>
IdentifierInputs == {TXT_ID_2, TXT_AT_USER1, TXT_NAME2, TXT_ID_9}

\* message.from_user of a message of user u
TgUser(u) == [id |-> u, username |-> "user" \o ToString(u), first_name |-> "Name" \o ToString(u)]

(***************************************************************************)
(* State                                                                   *)
(***************************************************************************)
VARIABLES
    users,            \* table users: id -> [username, first_name]
    submissions,      \* table submissions, in insertion order
    seq_submissions,  \* the AUTOINCREMENT counter of submissions.id
    miss_reasons,     \* table miss_reasons: the set of its rows
    db_up,            \* the database accepts statements (FALSE: execute / commit raise)
    heap,             \* reference -> dict object created by cmd_send_dz / cmd_send_conspect
    pending,          \* pending: uid -> reference into heap
    admin_pending,    \* admin_pending: uid -> action
    media_groups,     \* media_groups, in insertion order
    reasons_pending,  \* reasons_pending: uid -> date
    refreshing,       \* users with a handler suspended before ensure_user_with_current_data
    sweep,            \* process_media_groups: position of the running invocation
    ask,              \* ask_missed_reason: position of the running invocation
    clock,            \* time.time(), in seconds
    nextSweep,        \* the time of the next interval trigger of process_media_groups
    today,            \* date.today()
    nextMsg,          \* the number of the next update
    last,             \* history: the handler or step that ran last, and its outcome
    emitted,          \* history: one record per Submission written
    owner,            \* history: the user each dict of heap was created for
    invalidated,      \* history: the pending dicts that existed at a cancel / menu event
    arrivals,         \* history: key -> the album photos received: time and caption
    firstSeen,        \* history: key -> copy of the PendingIntake when the buffer was created
    run,              \* history: the current / last run of ask_missed_reason
    purged,           \* history: the users deleted who have sent no update since
    boot,             \* the configuration read at import and how far the start got
    remind            \* daily_reminder: position of the running invocation

store == <<users, submissions, seq_submissions, miss_reasons>>
memory == <<heap, pending, admin_pending, media_groups, reasons_pending>>
tasks == <<refreshing, sweep, ask>>
time == <<clock, nextSweep, today>>
history == <<last, emitted, owner, invalidated, arrivals, firstSeen, run, purged>>
jobs == <<boot, remind>>
vars == <<store, db_up, memory, tasks, time, nextMsg, history, jobs>>

\* dict[key] = value
Put(f, k, v) == [x \in DOMAIN f \cup {k} |-> IF x = k THEN v ELSE f[x]]
\* a read that leaves the key in the dict
Peek(f, k) == f
\* dict.pop(key, None)
Pop(f, k) == [x \in DOMAIN f \ {k} |-> f[x]]
\* the empty dict
Empty == [x \in {} |-> 0]
\* f restricted to the keys in S
Restrict(f, S) == [x \in DOMAIN f \cap S |-> f[x]]

\* the references held by pending and by the album entries
Live(pend, mg) ==
    {pend[u] : u \in DOMAIN pend} \cup
    {mg[i].pending_snapshot : i \in {j \in 1..Len(mg) : mg[j].pending_snapshot # 0}}

\* the reference of a newly created dict
NewRef(hp) == CHOOSE r \in 1..(Cardinality(DOMAIN hp) + 1) : r \notin DOMAIN hp

Keys == Users \X MgIds
\* the copy of "no PendingIntake"
NoIntake == [none |-> TRUE]

(***************************************************************************)
(* Store                                                                   *)
(***************************************************************************)
\* INSERT OR IGNORE ... ; UPDATE users SET username = ?, first_name = ? WHERE id = ?
\* (an exception of the database is logged and swallowed)
ensure_user_record_obj(us, user) ==
    IF db_up
    THEN Put(us, user.id, [username |-> user.username, first_name |-> user.first_name])
    ELSE us

\* the same with the defaults username = "", first_name = "" of the signature
ensure_user_record_by_id(us, uid, username, first_name) ==
    IF db_up THEN Put(us, uid, [username |-> username, first_name |-> first_name])
    ELSE us

\* the row INSERTed by add_submission_obj
SubmissionRow(id, user, sub, message_id) ==
    [id |-> id, user_id |-> user.id, type |-> sub.type, section |-> sub.section,
     topic_id |-> sub.topic_id, topic_title |-> sub.topic_title,
     content_type |-> sub.content_type, content_summary |-> sub.content_summary,
     photo_file_id |-> sub.photo_file_id, message_id |-> message_id,
     date |-> sub.date, ts |-> sub.ts]

\* add_submission_obj: the new value of <<users, submissions, seq_submissions>>;
\* when the INSERT raises, the exception is logged and nothing is returned
add_submission_obj(us, subs, seq, user, sub, message_id) ==
    IF db_up
    THEN << ensure_user_record_obj(us, user),
            Append(subs, SubmissionRow(seq + 1, user, sub, message_id)),
            seq + 1 >>
    ELSE << us, subs, seq >>

\* ensure_user_with_current_data after get_chat_member returned (ok) or raised
ensure_user_with_current_data(us, uid, ok) ==
    IF ~db_up THEN us
    ELSE IF ok THEN Put(us, uid, [username |-> TgUser(uid).username,
                             first_name |-> TgUser(uid).first_name])
    ELSE IF uid \in DOMAIN us THEN us
    ELSE Put(us, uid, [username |-> "", first_name |-> "user_" \o ToString(uid)])

\* a plain INSERT, which keeps the rows the table has
insert_miss_reason(mr, uid, date, reason) ==
    mr \cup {[user_id |-> uid, date |-> date, reason |-> reason]}

\* a reply that is stored for the day it arrives on
insert_miss_reason_today(mr, uid, date, reason) ==
    IF db_up
    THEN {r \in mr : ~(r.user_id = uid /\ r.date = today)}
         \cup {[user_id |-> uid, date |-> today, reason |-> reason]}
    ELSE mr

\* INSERT OR REPLACE INTO miss_reasons (user_id, date, reason), under
\* PRIMARY KEY (user_id, date): the row with that key is replaced
insert_or_replace_miss_reason(mr, uid, date, reason) ==
    IF db_up
    THEN {r \in mr : ~(r.user_id = uid /\ r.date = date)}
         \cup {[user_id |-> uid, date |-> date, reason |-> reason]}
    ELSE mr

\* SELECT reason FROM miss_reasons WHERE user_id = ? AND date = ?
miss_reason_of(mr, uid, date) == {r.reason : r \in {x \in mr : x.user_id = uid /\ x.date = date}}

\* today_str()
today_str == today

(***************************************************************************)
(* Initial state: a fresh database, empty maps, the scheduler just started *)
(***************************************************************************)
NoKey == <<0, None>>

\* the environment of a configured deployment: API_TOKEN and ADMIN_ID are set
Configured ==
    [phase |-> "running", API_TOKEN |-> "123:abc", ADMIN_ID_STR |-> <<"1">>,
     ADMIN_ID |-> ADMIN_ID]

\* the state of a process whose module body has run, apart from the flows: a
\* database without submissions and reasons, no buffers, no job running
Still ==
    /\ db_up = TRUE
    /\ submissions = <<>>
    /\ seq_submissions = 0
    /\ miss_reasons = {}
    /\ admin_pending = Empty
    /\ media_groups = <<>>
    /\ refreshing = {}
    /\ sweep = [pc |-> "idle", now |-> 0, keys |-> <<>>, cur |-> NoKey]
    /\ clock = 0
    /\ nextSweep \in 1..SweepSeconds
    /\ today = 1
    /\ nextMsg = 1
    /\ emitted = <<>>
    /\ invalidated = {}
    /\ arrivals = [k \in Keys |-> <<>>]
    /\ firstSeen = Empty
    /\ purged = {}
    /\ remind = [pc |-> "idle", left |-> <<>>, cur |-> 0]

\* ... and the reconciliation job has not run: nobody is in the waiting-state
Quiet ==
    /\ Still
    /\ reasons_pending = Empty
    /\ ask = [pc |-> "idle", dstr |-> 0, to_ask |-> {}, cur |-> 0]
    /\ run = [day |-> 0, users0 |-> {}, submitted0 |-> {}, reasons0 |-> {},
              prompted |-> <<>>, failed |-> {}, done |-> FALSE]

\* the in-memory state of a process whose module body has run, over a database
\* without submissions and reasons
Cleared ==
    /\ Quiet
    /\ heap = Empty
    /\ pending = Empty
    /\ owner = Empty
    /\ last = [h |-> "init", u |-> 0, out |-> ""]

\* the state of a configured process that has just started polling
Started == Cleared /\ boot = Configured

\* first start: init_db creates the tables
Init == users = Empty /\ Started

\* a later start: CREATE TABLE IF NOT EXISTS keeps the users table of the database
\* file, in which user 1 may have registered before
InitStored ==
    /\ Started
    /\ users \in {Empty, ensure_user_record_obj(Empty, TgUser(1))}

\* user 1 has walked through the guided flow (flow button, section button,
\* topic button) and the bot waits for the content: pending[1] is complete.
\* The messages are numbered from here on.
InitIntake ==
    /\ Quiet
    /\ boot = Configured
    /\ users \in {Empty, ensure_user_record_obj(Empty, TgUser(1))}
    /\ \E kind \in {"dz", "conspect"} :
          heap = Put(Empty, 1, [type |-> kind, ts |-> 0, section |-> SEC_EGE,
                                topic |-> [id |-> FindTopic(SEC_EGE, "ege1").id,
                                           title |-> FindTopic(SEC_EGE, "ege1").title]])
    /\ pending = Put(Empty, 1, 1)
    /\ owner = Put(Empty, 1, 1)
    /\ last = [h |-> "cb_topic_choose", u |-> 1, out |-> "ok"]

(***************************************************************************)
(* Dispatch: aiogram tries the message handlers in the order they were     *)
(* registered and runs the first whose filter accepts the message.         *)
(***************************************************************************)
Handler(text) ==
    IF StartsWith(text, CMD_START) THEN "cmd_start"
    ELSE IF text = BTN_SEND_DZ THEN "cmd_send_dz"
    ELSE IF text = BTN_SEND_CONSPECT THEN "cmd_send_conspect"
    ELSE IF text = BTN_MY_CONSPECTS THEN "cmd_my_conspects"
    ELSE IF text = BTN_MAIN_MENU THEN "cmd_main_menu"
    ELSE IF text = BTN_ADMIN_PANEL THEN "cmd_admin_panel"
    ELSE "handle_text"

\* uid in pending and "section" in pending[uid] and "topic" in pending[uid]
Complete(pend, hp, u) ==
    /\ u \in DOMAIN pend
    /\ "section" \in DOMAIN hp[pend[u]]
    /\ "topic" \in DOMAIN hp[pend[u]]

\* the dicts of heap that were created for user u
DictsOf(u) == {r \in DOMAIN heap : owner[r] = u}

Event(h, u, out) == [h |-> h, u |-> u, out |-> out]

\* the dicts that pend and mg no longer refer to are freed; inv is the new
\* history of invalidated dicts
Free(pend, mg, inv) ==
    /\ heap' = Restrict(heap, Live(pend, mg))
    /\ owner' = Restrict(owner, Live(pend, mg))
    /\ invalidated' = inv \cap Live(pend, mg)

(***************************************************************************)
(* Menu handlers                                                           *)
(***************************************************************************)
cmd_start(u, text) ==
    /\ nextMsg <= MaxMsgs
    /\ Handler(text) = "cmd_start"
    /\ users' = ensure_user_record_obj(users, TgUser(u))
    /\ nextMsg' = nextMsg + 1
    /\ last' = Event("cmd_start", u, "ok")
    /\ UNCHANGED <<submissions, seq_submissions, miss_reasons, memory, tasks, time, db_up>>
    /\ UNCHANGED <<emitted, owner, invalidated, arrivals, firstSeen, run>>
    /\ purged' = purged \ {u}
    /\ UNCHANGED <<boot, remind>>

\* a start that writes the new kind into the dict the user already has
StartFlowMerge(u, kind) ==
    /\ LET old == IF u \in DOMAIN pending THEN heap[pending[u]] ELSE Empty
           hp == Restrict(heap, Live(Pop(pending, u), media_groups))
           r == NewRef(hp)
       IN /\ heap' = Put(hp, r, Put(Put(old, "type", kind), "ts", clock))
          /\ owner' = Put(Restrict(owner, DOMAIN hp), r, u)
          /\ invalidated' = invalidated \cap DOMAIN hp
          /\ pending' = Put(pending, u, r)
    /\ nextMsg' = nextMsg + 1
    /\ UNCHANGED <<store, admin_pending, media_groups, reasons_pending, tasks, time, db_up>>
    /\ UNCHANGED <<emitted, arrivals, firstSeen, run>>
    /\ purged' = purged \ {u}
    /\ UNCHANGED <<boot, remind>>

\* pending[str(message.from_user.id)] = {"type": kind, "ts": ...}
StartFlow(u, kind) ==
    /\ LET hp == Restrict(heap, Live(Pop(pending, u), media_groups))
           r == NewRef(hp)
       IN /\ heap' = Put(hp, r, [type |-> kind, ts |-> clock])
          /\ owner' = Put(Restrict(owner, DOMAIN hp), r, u)
          /\ invalidated' = invalidated \cap DOMAIN hp
          /\ pending' = Put(pending, u, r)
    /\ nextMsg' = nextMsg + 1
    /\ UNCHANGED <<store, admin_pending, media_groups, reasons_pending, tasks, time, db_up>>
    /\ UNCHANGED <<emitted, arrivals, firstSeen, run>>
    /\ purged' = purged \ {u}
    /\ UNCHANGED <<boot, remind>>

cmd_send_dz(u, text) ==
    /\ nextMsg <= MaxMsgs
    /\ Handler(text) = "cmd_send_dz"
    /\ StartFlow(u, "dz")
    /\ last' = Event("cmd_send_dz", u, IF u \in DOMAIN pending THEN "replaced" ELSE "started")

cmd_send_conspect(u, text) ==
    /\ nextMsg <= MaxMsgs
    /\ Handler(text) = "cmd_send_conspect"
    /\ StartFlow(u, "conspect")
    /\ last' = Event("cmd_send_conspect", u,
                     IF u \in DOMAIN pending THEN "replaced" ELSE "started")

cmd_main_menu(u, text) ==
    /\ nextMsg <= MaxMsgs
    /\ Handler(text) = "cmd_main_menu"
    /\ nextMsg' = nextMsg + 1
    /\ last' = Event("cmd_main_menu", u, "ok")
    /\ invalidated' = invalidated \cup DictsOf(u)
    /\ UNCHANGED <<store, memory, tasks, time, db_up>>
    /\ UNCHANGED <<emitted, owner, arrivals, firstSeen, run>>
    /\ purged' = purged \ {u}
    /\ UNCHANGED <<boot, remind>>

\* a check that lets every sender pass
AnySender(u) == TRUE

\* from_user.id != ADMIN_ID fails: the sender is the admin
IsAdmin(u) == u = ADMIN_ID

\* the admin panel button: the inline admin keyboard for the admin, a refusal
\* for anybody else
cmd_admin_panel(u, text) ==
    /\ nextMsg <= MaxMsgs
    /\ Handler(text) = "cmd_admin_panel"
    /\ nextMsg' = nextMsg + 1
    /\ last' = Event("cmd_admin_panel", u, IF IsAdmin(u) THEN "panel" ELSE "denied")
    /\ UNCHANGED <<store, memory, tasks, time, db_up>>
    /\ UNCHANGED <<emitted, owner, invalidated, arrivals, firstSeen, run>>
    /\ purged' = purged \ {u}
    /\ UNCHANGED <<boot, remind>>

(***************************************************************************)
(* Section / topic / cancel callbacks                                      *)
(***************************************************************************)
cb_section_choose(u, section) ==
    /\ nextMsg <= MaxMsgs
    /\ nextMsg' = nextMsg + 1
    /\ IF u \notin DOMAIN pending
       THEN /\ heap' = heap
            /\ last' = Event("cb_section_choose", u, "no_flow")
       ELSE /\ heap' = [heap EXCEPT ![pending[u]] = Put(@, "section", section)]
            /\ last' = Event("cb_section_choose", u, "ok")
    /\ UNCHANGED <<store, pending, admin_pending, media_groups, reasons_pending>>
    /\ UNCHANGED <<tasks, time, db_up>>
    /\ UNCHANGED <<emitted, owner, invalidated, arrivals, firstSeen, run>>
    /\ purged' = purged \ {u}
    /\ UNCHANGED <<boot, remind>>

\* a choice that never looks at dz_allowed
TopicChoiceNoPolicy(u, section, topic_id) ==
    IF u \notin DOMAIN pending \/ "section" \notin DOMAIN heap[pending[u]] THEN "no_flow"
    ELSE IF FindTopic(section, topic_id) = NoTopic THEN "not_found"
    ELSE "ok"

\* a choice that accepts a topic before a section was chosen
TopicChoiceNoSection(u, section, topic_id) ==
    IF u \notin DOMAIN pending THEN "no_flow"
    ELSE IF FindTopic(section, topic_id) = NoTopic THEN "not_found"
    ELSE IF heap[pending[u]].type = "dz" /\ ~FindTopic(section, topic_id).dz_allowed
         THEN "rejected"
    ELSE "ok"

\* the outcome of cb_topic_choose: which return it takes
TopicChoice(u, section, topic_id) ==
    IF u \notin DOMAIN pending \/ "section" \notin DOMAIN heap[pending[u]] THEN "no_flow"
    ELSE IF FindTopic(section, topic_id) = NoTopic THEN "not_found"
    ELSE IF heap[pending[u]].type = "dz" /\ ~FindTopic(section, topic_id).dz_allowed
         THEN "rejected"
    ELSE "ok"

cb_topic_choose(u, section, topic_id) ==
    /\ nextMsg <= MaxMsgs
    /\ nextMsg' = nextMsg + 1
    /\ IF TopicChoice(u, section, topic_id) = "ok"
       THEN heap' = [heap EXCEPT ![pending[u]] =
                        Put(@, "topic", [id |-> FindTopic(section, topic_id).id,
                                         title |-> FindTopic(section, topic_id).title])]
       ELSE heap' = heap
    /\ last' = Event("cb_topic_choose", u, TopicChoice(u, section, topic_id))
    /\ UNCHANGED <<store, pending, admin_pending, media_groups, reasons_pending>>
    /\ UNCHANGED <<tasks, time, db_up>>
    /\ UNCHANGED <<emitted, owner, invalidated, arrivals, firstSeen, run>>
    /\ purged' = purged \ {u}
    /\ UNCHANGED <<boot, remind>>

cb_cancel(u) ==
    /\ nextMsg <= MaxMsgs
    /\ nextMsg' = nextMsg + 1
    /\ pending' = Pop(pending, u)
    /\ admin_pending' = Pop(admin_pending, u)
    /\ last' = Event("cb_cancel", u, "ok")
    /\ Free(pending', media_groups, invalidated \cup DictsOf(u))
    /\ UNCHANGED <<store, media_groups, reasons_pending, tasks, time, db_up>>
    /\ UNCHANGED <<emitted, arrivals, firstSeen, run>>
    /\ purged' = purged \ {u}
    /\ UNCHANGED <<boot, remind>>

(***************************************************************************)
(* Text messages                                                           *)
(***************************************************************************)
\* the buttons handle_text clears the flow for (it is registered after their
\* own handlers)
MenuButtons == {BTN_SEND_DZ, BTN_SEND_CONSPECT, BTN_MY_CONSPECTS, BTN_MAIN_MENU}

\* the sub dict built from a complete PendingIntake p
FlowSub(p, content_type, summary, file_id) ==
    [type |-> p.type, section |-> p.section, topic_id |-> p.topic.id,
     topic_title |-> p.topic.title, content_type |-> content_type,
     content_summary |-> summary, photo_file_id |-> file_id,
     date |-> today_str, ts |-> clock]

\* the sub dict of the keyword fallback
FallbackSub(kind, title, content_type, summary, file_id) ==
    [type |-> kind, section |-> NO_SECTION, topic_id |-> "none",
     topic_title |-> title, content_type |-> content_type,
     content_summary |-> summary, photo_file_id |-> file_id,
     date |-> today_str, ts |-> clock]

\* what the user is sent after add_submission_obj returned: the praise, on every
\* path (add_submission_obj returns nothing the caller could look at)
ReplyAfter(saved) == "praise"

\* history record of one emission; known is the users row of u before it
Emission(u, path, src, key) ==
    [id |-> seq_submissions + 1, u |-> u, path |-> path, src |-> src,
     stale |-> src \in invalidated, key |-> key,
     saved |-> db_up, reply |-> ReplyAfter(db_up),
     known |-> IF u \in DOMAIN users THEN users[u] ELSE Empty]

\* a handle_text that serves a complete flow before the absence waiting-state
TextBranchFlowFirst(u, raw, p1) ==
    IF raw = BTN_STATS THEN "stats"
    ELSE IF Complete(p1, heap, u) THEN "flow"
    ELSE IF u \in DOMAIN reasons_pending THEN "reason"
    ELSE IF u \in DOMAIN admin_pending THEN "admin"
    ELSE IF HasKeyword(Strip(raw)) THEN "fallback"
    ELSE "hint"

\* a handle_text that records whatever the flow did not take
TextBranchAnyContent(u, raw, p1) ==
    IF raw = BTN_STATS THEN "stats"
    ELSE IF u \in DOMAIN reasons_pending THEN "reason"
    ELSE IF u \in DOMAIN admin_pending THEN "admin"
    ELSE IF Complete(p1, heap, u) THEN "flow"
    ELSE "fallback"

\* which branch handle_text takes, after lines 763-764 left the flows p1
TextBranch(u, raw, p1) ==
    IF raw = BTN_STATS THEN "stats"
    ELSE IF u \in DOMAIN reasons_pending THEN "reason"
    ELSE IF u \in DOMAIN admin_pending THEN "admin"
    ELSE IF Complete(p1, heap, u) THEN "flow"
    ELSE IF HasKeyword(Strip(raw)) THEN "fallback"
    ELSE "hint"

handle_text(u, raw) ==
    /\ nextMsg <= MaxMsgs
    /\ Handler(raw) = "handle_text"
    /\ LET text == Strip(raw)
           p1 == IF raw \in MenuButtons THEN Pop(pending, u) ELSE pending
           br == TextBranch(u, raw, p1)
           sub == IF br = "flow"
                  THEN FlowSub(heap[p1[u]], "text", TextSummary(text), "")
                  ELSE FallbackSub(KeywordKind(text), Take(FirstLine(text), 50),
                                   "text", TextSummary(text), "")
           added == add_submission_obj(users, submissions, seq_submissions,
                                       TgUser(u), sub, nextMsg)
       IN /\ last' = Event("handle_text", u, br)
          /\ pending' = IF br = "stats" THEN pending
                        ELSE IF br = "flow" THEN Pop(p1, u) ELSE p1
          /\ IF br = "reason"
             THEN /\ reasons_pending' = Pop(reasons_pending, u)
                  /\ miss_reasons' = insert_or_replace_miss_reason(
                                         miss_reasons, u, reasons_pending[u], text)
             ELSE UNCHANGED <<reasons_pending, miss_reasons>>
          /\ IF br \in {"flow", "fallback"}
             THEN /\ users' = added[1]
                  /\ submissions' = added[2]
                  /\ seq_submissions' = added[3]
                  /\ refreshing' = refreshing \cup {u}
                  /\ emitted' = Append(emitted,
                        Emission(u, br, IF br = "flow" THEN p1[u] ELSE 0, NoKey))
             ELSE UNCHANGED <<users, submissions, seq_submissions, refreshing, emitted>>
    /\ Free(pending', media_groups, invalidated)
    /\ nextMsg' = nextMsg + 1
    /\ UNCHANGED <<admin_pending, media_groups, sweep, ask, time, db_up>>
    /\ UNCHANGED <<arrivals, firstSeen, run>>
    /\ purged' = purged \ {u}
    /\ UNCHANGED <<boot, remind>>

(***************************************************************************)
(* Photo messages                                                          *)
(***************************************************************************)
\* a buffer looked up by media_group_id alone
EntryOfGroup(mg, key) ==
    IF \E i \in 1..Len(mg) : mg[i].key[2] = key[2]
    THEN CHOOSE i \in 1..Len(mg) : mg[i].key[2] = key[2]
    ELSE 0

\* media_groups.get(key): the position of the entry, 0 when there is none
EntryOf(mg, key) ==
    IF \E i \in 1..Len(mg) : mg[i].key = key
    THEN CHOOSE i \in 1..Len(mg) : mg[i].key = key
    ELSE 0

\* a finally clause that leaves the entry in place
KeepEntry(mg, key) == mg

\* media_groups.pop(key, None)
PopEntry(mg, key) == SelectSeq(mg, LAMBDA e : e.key # key)

\* the album branch of handle_photo: the new value of media_groups
AddItem(mg, u, key, file_id, caption) ==
    IF EntryOf(mg, key) = 0
    THEN Append(mg, [key |-> key, file_ids |-> <<file_id>>, caption |-> caption,
                     last_update |-> clock,
                     pending_snapshot |-> IF u \in DOMAIN pending THEN pending[u] ELSE 0,
                     uid |-> u])
    ELSE [mg EXCEPT ![EntryOf(mg, key)] =
            [@ EXCEPT !.file_ids = Append(@, file_id),
                      !.caption = IF caption # <<>> THEN caption ELSE @,
                      !.last_update = clock]]

\* which branch handle_photo takes
PhotoBranch(u, caption, mgid) ==
    IF mgid # None THEN "album"
    ELSE IF Complete(pending, heap, u) THEN "flow"
    ELSE IF HasKeyword(caption) THEN "fallback"
    ELSE "hint"

handle_photo(u, caption, mgid) ==
    /\ nextMsg <= MaxMsgs
    /\ LET br == PhotoBranch(u, caption, mgid)
           key == <<u, mgid>>
           file_id == FileId(nextMsg)
           sub == IF br = "flow"
                  THEN FlowSub(heap[pending[u]], "photo", PhotoSummary(caption), file_id)
                  ELSE FallbackSub(KeywordKind(caption),
                                   Take(FirstLine(CaptionSummary(caption)), 50),
                                   "photo", CaptionSummary(caption), file_id)
           added == add_submission_obj(users, submissions, seq_submissions,
                                       TgUser(u), sub, nextMsg)
       IN /\ last' = Event("handle_photo", u, br)
          /\ IF br = "album"
             THEN /\ media_groups' = AddItem(media_groups, u, key, file_id, caption)
                  /\ arrivals' = [arrivals EXCEPT ![key] =
                                    Append(@, [file_id |-> file_id, t |-> clock,
                                               caption |-> caption])]
                  /\ firstSeen' = IF EntryOf(media_groups, key) # 0 THEN firstSeen
                                  ELSE Put(firstSeen, key,
                                           IF u \in DOMAIN pending THEN heap[pending[u]]
                                           ELSE NoIntake)
             ELSE UNCHANGED <<media_groups, arrivals, firstSeen>>
          /\ pending' = IF br = "flow" THEN Pop(pending, u) ELSE pending
          /\ IF br \in {"flow", "fallback"}
             THEN /\ users' = added[1]
                  /\ submissions' = added[2]
                  /\ seq_submissions' = added[3]
                  /\ refreshing' = refreshing \cup {u}
                  /\ emitted' = Append(emitted,
                        Emission(u, br, IF br = "flow" THEN pending[u] ELSE 0, NoKey))
             ELSE UNCHANGED <<users, submissions, seq_submissions, refreshing, emitted>>
    /\ Free(pending', media_groups', invalidated)
    /\ nextMsg' = nextMsg + 1
    /\ UNCHANGED <<miss_reasons, admin_pending, reasons_pending, sweep, ask, time, db_up>>
    /\ UNCHANGED run
    /\ purged' = purged \ {u}
    /\ UNCHANGED <<boot, remind>>

\* a handler that wrote a Submission resumes after its reply was sent:
\* await ensure_user_with_current_data(message.from_user.id)
HandlerRefresh(u, ok) ==
    /\ u \in refreshing
    /\ refreshing' = refreshing \ {u}
    /\ users' = ensure_user_with_current_data(users, u, ok)
    /\ last' = Event("HandlerRefresh", u, IF ok THEN "ok" ELSE "failed")
    /\ UNCHANGED <<submissions, seq_submissions, miss_reasons, memory, sweep, ask, time, db_up>>
    /\ UNCHANGED <<nextMsg, emitted, owner, invalidated, arrivals, firstSeen, run>>
    /\ UNCHANGED purged
    /\ UNCHANGED <<boot, remind>>

\* a finalizer that reads the PendingIntake the user has when the sweep runs
IntakeAtSweep(entry, hp) ==
    IF entry.uid \in DOMAIN pending THEN hp[pending[entry.uid]] ELSE Empty

(***************************************************************************)
(* process_media_groups: the album finalizer, every SweepSeconds             *)
(***************************************************************************)
\* entry.get("pending_snapshot") or {}: the dict the entry refers to, as it is now
SnapshotOf(entry, hp) ==
    IF entry.pending_snapshot = 0 THEN Empty ELSE hp[entry.pending_snapshot]

\* dict.get(key, default)
Get(d, k, default) == IF k \in DOMAIN d THEN d[k] ELSE default

\* entry.get("caption", "") or f"Albom iz {len(file_ids)} foto"
AlbumCaption(entry) ==
    IF entry.caption # <<>> THEN entry.caption
    ELSE ALBUM_OF \o IntToText(Len(entry.file_ids)) \o ALBUM_PHOTOS

\* the sub dict process_media_groups builds for an entry
AlbumSub(entry, hp) ==
    [type |-> Get(SnapshotOf(entry, hp), "type", "dz"),
     section |-> Get(SnapshotOf(entry, hp), "section", NO_SECTION),
     topic_id |-> Get(SnapshotOf(entry, hp), "topic", [id |-> "none", title |-> ALBUM_TITLE]).id,
     topic_title |-> Get(SnapshotOf(entry, hp), "topic", [id |-> "none", title |-> ALBUM_TITLE]).title,
     content_type |-> "photo_album", content_summary |-> AlbumCaption(entry),
     photo_file_id |-> JoinSemi(entry.file_ids), date |-> today_str, ts |-> clock]

\* a finalizer that takes any entry older than half a second
IsQuietHalfSecond(now, entry) == (now - entry.last_update) * 10 > 5

\* a finalizer that finds no entry quiet
IsQuietNever(now, entry) == FALSE

\* now - entry['last_update'] > 1.5
IsQuiet(now, entry) == (now - entry.last_update) * 10 > QuietTenths

RECURSIVE SkipFresh(_, _, _)
\* the for loop up to the first key it finalizes: the keys from that key on
SkipFresh(keys, mg, now) ==
    IF keys = <<>> THEN <<>>
    ELSE IF EntryOf(mg, Head(keys)) # 0 /\ IsQuiet(now, mg[EntryOf(mg, Head(keys))])
         THEN keys
    ELSE SkipFresh(Tail(keys), mg, now)

\* types.User(id=int(uid), is_bot=False, first_name="", username="")
fake_user(uid) == [id |-> uid, username |-> "", first_name |-> ""]

\* the loop from key list keys on, over media_groups mg: it ends, or it writes the
\* Submission of the next quiet entry and suspends at the first await after it
SweepLoop(keys, mg, now) ==
    LET rest == SkipFresh(keys, mg, now)
        entry == mg[EntryOf(mg, Head(rest))]
        added == add_submission_obj(
                     ensure_user_record_by_id(users, entry.uid, "", ""),
                     submissions, seq_submissions, fake_user(entry.uid),
                     AlbumSub(entry, heap), 0)
    IN IF rest = <<>>
       THEN /\ sweep' = [pc |-> "idle", now |-> now, keys |-> <<>>, cur |-> NoKey]
            /\ UNCHANGED <<users, submissions, seq_submissions, emitted>>
       ELSE /\ sweep' = [pc |-> "emitted", now |-> now, keys |-> Tail(rest),
                         cur |-> Head(rest)]
            /\ users' = added[1]
            /\ submissions' = added[2]
            /\ seq_submissions' = added[3]
            /\ emitted' = Append(emitted,
                  Emission(entry.uid, "album", entry.pending_snapshot, entry.key))

\* the interval trigger fires and the job is not running
SweepStart ==
    /\ clock = nextSweep
    /\ sweep.pc = "idle"
    /\ nextSweep' = nextSweep + SweepSeconds
    /\ SweepLoop([i \in 1..Len(media_groups) |-> media_groups[i].key], media_groups, clock)
    /\ last' = Event("SweepStart", 0, sweep'.pc)
    /\ UNCHANGED <<miss_reasons, db_up, memory, refreshing, ask, clock, today, nextMsg>>
    /\ UNCHANGED <<owner, invalidated, arrivals, firstSeen, run>>
    /\ UNCHANGED purged
    /\ UNCHANGED <<boot, remind>>

\* a scheduler that starts the job at every trigger: a second invocation runs
\* its loop over the keys while the first one is suspended
SweepOverlap ==
    /\ clock = nextSweep
    /\ sweep.pc # "idle"
    /\ nextSweep' = nextSweep + SweepSeconds
    /\ SweepLoop([i \in 1..Len(media_groups) |-> media_groups[i].key], media_groups, clock)
    /\ last' = Event("SweepSkip", 0, "overlapped")
    /\ UNCHANGED <<miss_reasons, db_up, memory, refreshing, ask, clock, today, nextMsg>>
    /\ UNCHANGED <<owner, invalidated, arrivals, firstSeen, run>>
    /\ UNCHANGED purged
    /\ UNCHANGED <<boot, remind>>

\* the interval trigger fires while the previous invocation is suspended: the
\* scheduler runs at most one instance of a job and skips the trigger
SweepSkip ==
    /\ clock = nextSweep
    /\ sweep.pc # "idle"
    /\ nextSweep' = nextSweep + SweepSeconds
    /\ last' = Event("SweepSkip", 0, "skipped")
    /\ UNCHANGED <<store, db_up, memory, tasks, clock, today, nextMsg>>
    /\ UNCHANGED <<emitted, owner, invalidated, arrivals, firstSeen, run>>
    /\ UNCHANGED purged
    /\ UNCHANGED <<boot, remind>>

\* the invocation resumes after the awaits that follow the INSERT (downloads,
\* praise, get_chat_member, admin notification): ensure_user_with_current_data
\* wrote the users row (get_chat_member returned, ok, or raised), then finally
\* media_groups.pop(key, None) and the loop goes on.  The row is written one
\* await before the pop; no step of another task reads or writes both the users
\* table and media_groups, so the two are taken together.
SweepResume(ok) ==
    /\ sweep.pc = "emitted"
    /\ media_groups' = PopEntry(media_groups, sweep.cur)
    /\ LET refreshed == ensure_user_with_current_data(users, sweep.cur[1], ok)
           rest == SkipFresh(sweep.keys, media_groups', sweep.now)
           entry == media_groups'[EntryOf(media_groups', Head(rest))]
           added == add_submission_obj(
                        ensure_user_record_by_id(refreshed, entry.uid, "", ""),
                        submissions, seq_submissions, fake_user(entry.uid),
                        AlbumSub(entry, heap), 0)
       IN IF rest = <<>>
          THEN /\ sweep' = [pc |-> "idle", now |-> sweep.now, keys |-> <<>>, cur |-> NoKey]
               /\ users' = refreshed
               /\ UNCHANGED <<submissions, seq_submissions, emitted>>
          ELSE /\ sweep' = [pc |-> "emitted", now |-> sweep.now, keys |-> Tail(rest),
                            cur |-> Head(rest)]
               /\ users' = added[1]
               /\ submissions' = added[2]
               /\ seq_submissions' = added[3]
               /\ emitted' = Append(emitted,
                     [Emission(entry.uid, "album", entry.pending_snapshot, entry.key)
                         EXCEPT !.known = IF entry.uid \in DOMAIN refreshed
                                          THEN refreshed[entry.uid] ELSE Empty])
    /\ last' = Event("SweepResume", sweep.cur[1], sweep'.pc)
    /\ Free(pending, media_groups', invalidated)
    /\ UNCHANGED <<miss_reasons, pending, admin_pending, reasons_pending>>
    /\ UNCHANGED <<refreshing, ask, time, db_up, nextMsg>>
    /\ UNCHANGED <<arrivals, firstSeen, run>>
    /\ UNCHANGED purged
    /\ UNCHANGED <<boot, remind>>

(***************************************************************************)
(* ask_missed_reason: the daily reconciliation job                         *)
(***************************************************************************)
\* SELECT DISTINCT user_id FROM submissions WHERE date = ?
submitted_uids(subs, dstr) ==
    {subs[i].user_id : i \in {j \in 1..Len(subs) : subs[j].date = dstr}}

\* a reconciliation that asks every user
to_ask_all(us, subs, dstr) == DOMAIN us

\* to_ask = all_uids - submitted_uids
to_ask(us, subs, dstr) == DOMAIN us \ submitted_uids(subs, dstr)

\* the for loop over the users left, with the waiting-states rp and the history
\* r of the run: it ends, or it registers the next user and suspends at the send
AskLoop(left, rp, dstr, r) ==
    IF left = {}
    THEN /\ ask' = [pc |-> "idle", dstr |-> dstr, to_ask |-> {}, cur |-> 0]
         /\ reasons_pending' = rp
         /\ run' = [r EXCEPT !.done = TRUE]
    ELSE \E uid \in left :
         /\ ask' = [pc |-> "sending", dstr |-> dstr, to_ask |-> left \ {uid}, cur |-> uid]
         /\ reasons_pending' = Put(rp, uid, dstr)
         /\ run' = [r EXCEPT !.prompted = Append(@, [u |-> uid, date |-> dstr])]

AskStart ==
    /\ ask.pc = "idle"
    /\ \E r0 \in {[day |-> today, users0 |-> DOMAIN users,
                   submitted0 |-> {u \in Users : \E i \in 1..Len(submissions) :
                                      /\ submissions[i].user_id = u
                                      /\ submissions[i].date = today},
                   reasons0 |-> {u \in Users : miss_reason_of(miss_reasons, u, today) # {}},
                   prompted |-> <<>>, failed |-> {}, done |-> FALSE]} :
          LET left == to_ask(users, submissions, today_str)
          IN IF left = {}
             THEN /\ ask' = [pc |-> "idle", dstr |-> today_str, to_ask |-> {}, cur |-> 0]
                  /\ reasons_pending' = reasons_pending
                  /\ run' = [r0 EXCEPT !.done = TRUE]
             ELSE \E uid \in left :
                  /\ ask' = [pc |-> "sending", dstr |-> today_str,
                             to_ask |-> left \ {uid}, cur |-> uid]
                  /\ reasons_pending' = Put(reasons_pending, uid, today_str)
                  /\ run' = [r0 EXCEPT !.prompted = <<[u |-> uid, date |-> today_str]>>]
    /\ last' = Event("AskStart", 0, ask'.pc)
    /\ UNCHANGED <<store, heap, pending, admin_pending, media_groups>>
    /\ UNCHANGED <<refreshing, sweep, time, db_up, nextMsg>>
    /\ UNCHANGED <<emitted, owner, invalidated, arrivals, firstSeen>>
    /\ UNCHANGED purged
    /\ UNCHANGED <<boot, remind>>

\* a run that leaves the waiting-state of a user it could not reach
AskSentKeep(ok) ==
    /\ ask.pc = "sending"
    /\ AskLoop(ask.to_ask, reasons_pending, ask.dstr,
               IF ok THEN run ELSE [run EXCEPT !.failed = @ \cup {ask.cur}])
    /\ last' = Event("AskSent", ask.cur, IF ok THEN "ok" ELSE "failed")
    /\ UNCHANGED <<store, heap, pending, admin_pending, media_groups>>
    /\ UNCHANGED <<refreshing, sweep, time, db_up, nextMsg>>
    /\ UNCHANGED <<emitted, owner, invalidated, arrivals, firstSeen>>
    /\ UNCHANGED purged
    /\ UNCHANGED <<boot, remind>>

\* bot.send_message to ask.cur returned (ok) or raised
AskSent(ok) ==
    /\ ask.pc = "sending"
    /\ AskLoop(ask.to_ask,
               IF ok THEN reasons_pending ELSE Pop(reasons_pending, ask.cur),
               ask.dstr,
               IF ok THEN run ELSE [run EXCEPT !.failed = @ \cup {ask.cur}])
    /\ last' = Event("AskSent", ask.cur, IF ok THEN "ok" ELSE "failed")
    /\ UNCHANGED <<store, heap, pending, admin_pending, media_groups>>
    /\ UNCHANGED <<refreshing, sweep, time, db_up, nextMsg>>
    /\ UNCHANGED <<emitted, owner, invalidated, arrivals, firstSeen>>
    /\ UNCHANGED purged
    /\ UNCHANGED <<boot, remind>>

(***************************************************************************)
(* Reports and administration                                              *)
(***************************************************************************)
RECURSIVE Ascending(_)
\* ORDER BY id: the elements of a set of integers, smallest first
Ascending(S) ==
    IF S = {} THEN <<>>
    ELSE LET m == CHOOSE x \in S : \A y \in S : x <= y
         IN <<m>> \o Ascending(S \ {m})

\* a summary row whose flags look at the Submissions of every date
ReportRowAnyDate(us, subs, mr, uid, dstr) ==
    LET mine == SelectSeq(subs, LAMBDA r : r.user_id = uid)
        types == {mine[i].type : i \in 1..Len(mine)}
        rr == miss_reason_of(mr, uid, dstr)
    IN [user_id |-> uid,
        username |-> IF us[uid].username # "" THEN us[uid].username ELSE us[uid].first_name,
        date |-> dstr,
        dz_submitted |-> IF "dz" \in types THEN 1 ELSE 0,
        conspect_submitted |-> IF "conspect" \in types THEN 1 ELSE 0,
        miss_reason |-> IF rr = {} THEN <<>> ELSE CHOOSE r \in rr : TRUE,
        task_flag |-> "",
        message_id |-> 0]

\* the dict submissions_for_date appends for the users row uid.  trow, the row of
\* ORDER BY ts DESC LIMIT 1, is the Submission of that user and day inserted
\* last (ts is the time of the INSERT); message_id None is 0.
ReportRow(us, subs, mr, uid, dstr) ==
    LET mine == SelectSeq(subs, LAMBDA r : r.user_id = uid /\ r.date = dstr)
        types == {mine[i].type : i \in 1..Len(mine)}
        rr == miss_reason_of(mr, uid, dstr)
        trow == mine[Len(mine)]
    IN [user_id |-> uid,
        username |-> IF us[uid].username # "" THEN us[uid].username ELSE us[uid].first_name,
        date |-> dstr,
        dz_submitted |-> IF "dz" \in types THEN 1 ELSE 0,
        conspect_submitted |-> IF "conspect" \in types THEN 1 ELSE 0,
        miss_reason |-> IF rr = {} THEN <<>> ELSE CHOOSE r \in rr : TRUE,
        task_flag |-> IF mine = <<>> THEN ""
                      ELSE IF trow.topic_id # "" THEN trow.topic_id
                      ELSE IF Len(trow.topic_title) > 0 THEN trow.topic_title ELSE "",
        message_id |-> IF mine = <<>> THEN 0 ELSE trow.message_id]

\* submissions_for_date(target_date): one dict per row of SELECT ... FROM users
\* ORDER BY id; [] when a statement raises
submissions_for_date(us, subs, mr, dstr) ==
    IF ~db_up THEN <<>>
    ELSE LET ids == Ascending(DOMAIN us)
         IN [i \in 1..Len(ids) |-> ReportRow(us, subs, mr, ids[i], dstr)]

\* str.lstrip('@')
RECURSIVE LStripAt(_)
LStripAt(s) == IF s # <<>> /\ Head(s) = "@" THEN LStripAt(Tail(s)) ELSE s

\* str.isdigit()
IsDigit(s) == s # <<>> /\ \A i \in 1..Len(s) : s[i] \in {Digit(d) : d \in 0..9}

RECURSIVE TextToInt(_)
\* int(s) of a text of digits
TextToInt(s) ==
    IF s = <<>> THEN 0
    ELSE 10 * TextToInt(SubSeq(s, 1, Len(s) - 1))
         + (CHOOSE d \in 0..9 : Digit(d) = s[Len(s)])

\* the text of a stored username / first_name: "", TgUser's "user<id>" and
\* "Name<id>", ensure_user_with_current_data's "user_<id>"
NameText(name) ==
    IF name = "" THEN <<>>
    ELSE LET u == CHOOSE x \in Users :
                     name \in {TgUser(x).username, TgUser(x).first_name, "user_" \o ToString(x)}
         IN IF name = TgUser(u).username THEN <<"u","s","e","r">> \o IntToText(u)
            ELSE IF name = TgUser(u).first_name THEN <<"N","a","m","e">> \o IntToText(u)
            ELSE <<"u","s","e","r","_">> \o IntToText(u)

\* the user delete_user_submissions looks up: by id when the identifier is a
\* number, else (or when no row has that id) by LOWER(username) or
\* LOWER(first_name); 0 when there is none.  fetchone() takes the first row, in
\* the order of the primary key.
FindUser(us, identifier) ==
    LET ident == Strip(LStripAt(identifier))
        named == {u \in DOMAIN us : \/ Lower(NameText(us[u].username)) = Lower(ident)
                                    \/ Lower(NameText(us[u].first_name)) = Lower(ident)}
    IN IF IsDigit(ident) /\ TextToInt(ident) \in DOMAIN us THEN TextToInt(ident)
       ELSE IF named # {} THEN CHOOSE u \in named : \A v \in named : u <= v
       ELSE 0

\* a delete that leaves the rows of miss_reasons
DeleteSubmissionsOnly(us, subs, mr, identifier) ==
    LET target == FindUser(us, identifier)
    IN IF ~db_up \/ target = 0
       THEN [ok |-> FALSE, target |-> target, users |-> us, submissions |-> subs,
             miss_reasons |-> mr]
       ELSE [ok |-> TRUE, target |-> target,
             users |-> Pop(us, target),
             submissions |-> SelectSeq(subs, LAMBDA r : r.user_id # target),
             miss_reasons |-> mr]

\* delete_user_submissions(admin_id, identifier): what it returns (ok), the user
\* it found and the three tables after it.  With the database down the first
\* SELECT raises and nothing is deleted.
delete_user_submissions(us, subs, mr, identifier) ==
    LET target == FindUser(us, identifier)
    IN IF ~db_up \/ target = 0
       THEN [ok |-> FALSE, target |-> target, users |-> us, submissions |-> subs,
             miss_reasons |-> mr]
       ELSE [ok |-> TRUE, target |-> target,
             users |-> Pop(us, target),
             submissions |-> SelectSeq(subs, LAMBDA r : r.user_id # target),
             miss_reasons |-> {r \in mr : r.user_id # target}]

\* cb_admin: the buttons of the admin panel ("admin|<action>").  The actions
\* that only write report files or normalise NULL columns change nothing of
\* the state kept here and are left out of AdminActions.
cb_admin(u, action) ==
    /\ nextMsg <= MaxMsgs
    /\ nextMsg' = nextMsg + 1
    /\ last' = IF ~IsAdmin(u) THEN Event("cb_admin", u, "denied")
               ELSE IF action = "new_report"
               THEN [h |-> "cb_admin", u |-> u, out |-> action,
                     rows |-> submissions_for_date(users, submissions, miss_reasons, today_str)]
               ELSE Event("cb_admin", u, action)
    /\ admin_pending' = IF IsAdmin(u) /\ action \in {"export_user", "delete_user"}
                        THEN Put(admin_pending, u, action)
                        ELSE admin_pending
    /\ IF IsAdmin(u) /\ action = "reset_all" /\ db_up
       THEN /\ submissions' = <<>>
            /\ miss_reasons' = {}
            /\ users' = Empty
       ELSE UNCHANGED <<users, submissions, miss_reasons>>
    /\ UNCHANGED <<seq_submissions, heap, pending, media_groups, reasons_pending>>
    /\ UNCHANGED <<tasks, time, db_up>>
    /\ UNCHANGED <<emitted, owner, invalidated, arrivals, firstSeen, run>>
    /\ purged' = purged \ {u}
    /\ UNCHANGED <<boot, remind>>

\* admin_pending_text: registered at line 1235, after handle_text, whose filter
\* (content_types TEXT) accepts every text message: Handler never selects it
admin_pending_text(u, raw) ==
    /\ nextMsg <= MaxMsgs
    /\ Handler(raw) = "admin_pending_text"
    /\ u \in DOMAIN admin_pending
    /\ nextMsg' = nextMsg + 1
    /\ LET deleted == delete_user_submissions(users, submissions, miss_reasons, Strip(raw))
       IN IF u # ADMIN_ID
          THEN /\ last' = Event("admin_pending_text", u, "ignored")
               /\ UNCHANGED <<store, admin_pending>>
          ELSE /\ admin_pending' = Pop(admin_pending, u)
               /\ IF admin_pending[u] = "delete_user"
                  THEN /\ users' = deleted.users
                       /\ submissions' = deleted.submissions
                       /\ miss_reasons' = deleted.miss_reasons
                       /\ last' = Event("admin_pending_text", deleted.target,
                                         IF deleted.ok THEN "deleted" ELSE "not_deleted")
                  ELSE /\ UNCHANGED <<users, submissions, miss_reasons>>
                       /\ last' = Event("admin_pending_text", u, "exported")
               /\ UNCHANGED seq_submissions
    /\ LET deleted == delete_user_submissions(users, submissions, miss_reasons, Strip(raw))
       IN purged' = IF u = ADMIN_ID /\ admin_pending[u] = "delete_user" /\ deleted.ok
                    THEN (purged \ {u}) \cup {deleted.target}
                    ELSE purged \ {u}
    /\ UNCHANGED <<heap, pending, media_groups, reasons_pending, tasks, time, db_up>>
    /\ UNCHANGED <<emitted, owner, invalidated, arrivals, firstSeen, run>>
    /\ UNCHANGED <<boot, remind>>

\* delete_user_submissions is called with the identifier of an admin message
DeleteUser(identifier) ==
    /\ nextMsg <= MaxMsgs
    /\ nextMsg' = nextMsg + 1
    /\ LET deleted == delete_user_submissions(users, submissions, miss_reasons, identifier)
       IN /\ users' = deleted.users
          /\ submissions' = deleted.submissions
          /\ miss_reasons' = deleted.miss_reasons
          /\ last' = Event("delete_user_submissions", deleted.target,
                            IF deleted.ok THEN "deleted" ELSE "not_deleted")
          /\ purged' = IF deleted.ok THEN (purged \ {ADMIN_ID}) \cup {deleted.target}
                       ELSE purged \ {ADMIN_ID}
    /\ UNCHANGED <<seq_submissions, db_up, memory, tasks, time>>
    /\ UNCHANGED <<emitted, owner, invalidated, arrivals, firstSeen, run>>
    /\ UNCHANGED <<boot, remind>>

(***************************************************************************)
(* Start-up: the CONFIG block of the module body, then start_polling       *)
(***************************************************************************)
\* os.environ.get("API_TOKEN"): "" when the variable is unset or empty
TokenInputs == {"", "123:abc"}
\* os.environ.get("ADMIN_ID", ""): unset, not a number, a number with blanks
AdminIdInputs == {<<>>, <<"a","d","m","i","n">>, <<" ","1"," ">>}

\* the process before its module body ran, in one of the environments
InitImport ==
    /\ users = Empty
    /\ Cleared
    /\ boot \in [phase : {"import"}, API_TOKEN : TokenInputs,
                 ADMIN_ID_STR : AdminIdInputs, ADMIN_ID : {0}]

\* lines 55-75 and the __main__ block: a missing API_TOKEN raises ValueError;
\* an ADMIN_ID that is missing or no number is replaced by 0 with a warning, and
\* the bot, the handlers and the scheduler start
load_config ==
    /\ boot.phase = "import"
    /\ boot' = IF boot.API_TOKEN = ""
               THEN [boot EXCEPT !.phase = "aborted"]
               ELSE [boot EXCEPT !.phase = "running",
                                 !.ADMIN_ID = IF IsDigit(Strip(boot.ADMIN_ID_STR))
                                              THEN TextToInt(Strip(boot.ADMIN_ID_STR))
                                              ELSE 0]
    /\ last' = Event("load_config", 0, boot'.phase)
    /\ UNCHANGED <<store, db_up, memory, tasks, time, nextMsg>>
    /\ UNCHANGED <<emitted, owner, invalidated, arrivals, firstSeen, run, purged, remind>>

(***************************************************************************)
(* The daily jobs: daily_reminder (18:00), daily_admin_report (23:55)       *)
(***************************************************************************)
\* the loop of daily_reminder from the rows left on: it ends, or it suspends in
\* bot.send_message to the next row
ReminderLoop(left) ==
    remind' = IF left = <<>>
              THEN [pc |-> "idle", left |-> <<>>, cur |-> 0]
              ELSE [pc |-> "sending", left |-> Tail(left), cur |-> Head(left)]

\* the cron trigger fires and the job is not running: SELECT id FROM users (in
\* the order of the primary key); when the SELECT raises the job logs and ends
ReminderStart ==
    /\ remind.pc = "idle"
    /\ ReminderLoop(IF db_up THEN Ascending(DOMAIN users) ELSE <<>>)
    /\ last' = Event("daily_reminder", 0, IF db_up THEN "started" ELSE "error")
    /\ UNCHANGED <<store, db_up, memory, tasks, time, nextMsg, boot>>
    /\ UNCHANGED <<emitted, owner, invalidated, arrivals, firstSeen, run, purged>>

\* bot.send_message to remind.cur returned (ok) or raised (except: pass)
ReminderSent(ok) ==
    /\ remind.pc = "sending"
    /\ ReminderLoop(remind.left)
    /\ last' = Event("daily_reminder", remind.cur, IF ok THEN "sent" ELSE "failed")
    /\ UNCHANGED <<store, db_up, memory, tasks, time, nextMsg, boot>>
    /\ UNCHANGED <<emitted, owner, invalidated, arrivals, firstSeen, run, purged>>

\* the cron trigger of a daily job fires while its previous invocation is
\* suspended: add_job leaves max_instances at 1, the scheduler skips the trigger
JobSkip(job) ==
    /\ \/ job = "daily_reminder" /\ remind.pc # "idle"
       \/ job = "ask_missed_reason" /\ ask.pc # "idle"
    /\ last' = Event(job, 0, "skipped")
    /\ UNCHANGED <<store, db_up, memory, tasks, time, nextMsg, jobs>>
    /\ UNCHANGED <<emitted, owner, invalidated, arrivals, firstSeen, run, purged>>

\* SELECT COUNT(*) FROM submissions WHERE date = ? AND type = ?
count_submissions(subs, d, kind) ==
    Cardinality({j \in 1..Len(subs) : subs[j].date = d /\ subs[j].type = kind})

\* daily_admin_report: the two counts of the day are sent to the admin as one
\* text message; when a SELECT raises the job logs and sends nothing
daily_admin_report ==
    /\ last' = IF db_up
               THEN [h |-> "daily_admin_report", u |-> ADMIN_ID, out |-> "counts",
                     dz |-> count_submissions(submissions, today_str, "dz"),
                     cons |-> count_submissions(submissions, today_str, "conspect")]
               ELSE Event("daily_admin_report", ADMIN_ID, "error")
    /\ UNCHANGED <<store, db_up, memory, tasks, time, nextMsg, jobs>>
    /\ UNCHANGED <<emitted, owner, invalidated, arrivals, firstSeen, run, purged>>

(***************************************************************************)
(* Time                                                                    *)
(***************************************************************************)
\* a second passes; a due trigger of the sweep is served first.  While there is
\* no album entry and the finalizer is not running, the passing of time changes
\* nothing but the phase of the next trigger, which Init chooses.
Tick ==
    /\ clock < MaxTime
    /\ clock < nextSweep
    /\ media_groups # <<>> \/ sweep.pc # "idle"
    /\ clock' = clock + 1
    /\ last' = Event("Tick", 0, "")
    /\ UNCHANGED <<store, db_up, memory, tasks, nextSweep, today, nextMsg>>
    /\ UNCHANGED <<emitted, owner, invalidated, arrivals, firstSeen, run>>
    /\ UNCHANGED purged
    /\ UNCHANGED <<boot, remind>>

\* a clock reading one second further back, down to the reading from which on an
\* entry is quiet for every later now
Earlier(t) == IF t > 0 - SweepSeconds THEN t - 1 ELSE t

\* a second passes when the clock shows MaxTime: the window of MaxTime seconds
\* slides, and every reading of time.time() the program still compares (the
\* last_update of the buffers, the now of a running sweep, the next trigger) is
\* one less.  The window holds the start of a running sweep, so that the
\* differences now - last_update are kept: a transport call returns or fails
\* within MaxTime seconds.
TickLate ==
    /\ clock = MaxTime
    /\ clock < nextSweep
    /\ media_groups # <<>> \/ sweep.pc # "idle"
    /\ sweep.pc = "idle" \/ sweep.now > 0
    /\ nextSweep' = nextSweep - 1
    /\ media_groups' = [i \in 1..Len(media_groups) |->
                          [media_groups[i] EXCEPT !.last_update = Earlier(@)]]
    /\ sweep' = [sweep EXCEPT !.now = IF @ > 0 THEN @ - 1 ELSE 0]
    /\ last' = Event("Tick", 0, "late")
    /\ UNCHANGED <<store, db_up, heap, pending, admin_pending, reasons_pending>>
    /\ UNCHANGED <<refreshing, ask, clock, today, nextMsg>>
    /\ UNCHANGED <<emitted, owner, invalidated, arrivals, firstSeen, run>>
    /\ UNCHANGED purged
    /\ UNCHANGED <<boot, remind>>

\* the database stops accepting statements (locked file, full disk)
DbDown ==
    /\ db_up
    /\ db_up' = FALSE
    /\ last' = Event("DbDown", 0, "")
    /\ UNCHANGED <<store, memory, tasks, time, nextMsg>>
    /\ UNCHANGED <<emitted, owner, invalidated, arrivals, firstSeen, run>>
    /\ UNCHANGED purged
    /\ UNCHANGED <<boot, remind>>

\* the database accepts statements again
DbUp ==
    /\ ~db_up
    /\ db_up' = TRUE
    /\ last' = Event("DbUp", 0, "")
    /\ UNCHANGED <<store, memory, tasks, time, nextMsg>>
    /\ UNCHANGED <<emitted, owner, invalidated, arrivals, firstSeen, run>>
    /\ UNCHANGED purged
    /\ UNCHANGED <<boot, remind>>

\* midnight
NextDay ==
    /\ today + 1 \in Days
    /\ today' = today + 1
    /\ last' = Event("NextDay", 0, "")
    /\ UNCHANGED <<store, db_up, memory, tasks, clock, nextSweep, nextMsg>>
    /\ UNCHANGED <<emitted, owner, invalidated, arrivals, firstSeen, run>>
    /\ UNCHANGED purged
    /\ UNCHANGED <<boot, remind>>

(***************************************************************************)
(* Specification                                                           *)
(***************************************************************************)
\* the users U start, walk through or leave the guided flow
FlowEvent(U) ==
    \/ \E u \in U, text \in TextInputs : cmd_send_dz(u, text)
    \/ \E u \in U, text \in TextInputs : cmd_send_conspect(u, text)
    \/ \E u \in U, text \in TextInputs : cmd_main_menu(u, text)
    \/ \E u \in U, section \in SectionInputs : cb_section_choose(u, section)
    \/ \E u \in U, t \in TopicInputs : cb_topic_choose(u, t[1], t[2])
    \/ \E u \in U : cb_cancel(u)

\* the users U send text
TextEvent(U) == \E u \in U, text \in TextInputs : handle_text(u, text)

\* the users U send photos that belong to no album
PhotoEvent(U) == \E u \in U, caption \in CaptionInputs : handle_photo(u, caption, None)

\* the users U send album photos; the album finalizer and the clock that drives it
AlbumEvent(U) ==
    \/ \E u \in U, caption \in CaptionInputs, mgid \in MgIds : handle_photo(u, caption, mgid)
    \/ SweepStart
    \/ SweepSkip
    \/ \E ok \in BOOLEAN : SweepResume(ok)
    \/ Tick

\* the users U register; the daily reconciliation job and the calendar
DailyEvent(U) ==
    \/ \E u \in U, text \in TextInputs : cmd_start(u, text)
    \/ AskStart
    \/ \E ok \in BOOLEAN : AskSent(ok)
    \/ NextDay

\* the database fails and recovers
StoreEvent == DbDown \/ DbUp

\* the users U press buttons of the admin panel; the admin names a user
AdminEvent(U) ==
    \/ \E u \in U, action \in AdminActions : cb_admin(u, action)
    \/ \E identifier \in IdentifierInputs : handle_text(ADMIN_ID, identifier)
    \/ \E u \in U, raw \in IdentifierInputs : admin_pending_text(u, raw)

\* the users U register, send a free text or a keyword text
SubmitEvent(U) ==
    \/ \E u \in U : cmd_start(u, CMD_START)
    \/ \E u \in U, text \in {TXT_PLAIN, TXT_DZ} : handle_text(u, text)

\* what fills the Store: the users U register and send text; the reconciliation
\* job runs
RecordsEvent(U) ==
    \/ SubmitEvent(U)
    \/ AskStart
    \/ \E ok \in BOOLEAN : AskSent(ok)

\* delete_user_submissions is applied to the Store
PurgeEvent == \E identifier \in IdentifierInputs : DeleteUser(identifier)

\* a suspended handler resumes
ResumeEvent(U) == \E u \in U, ok \in BOOLEAN : HandlerRefresh(u, ok)

Next ==
    \/ FlowEvent(Users) \/ TextEvent(Users) \/ PhotoEvent(Users)
    \/ AlbumEvent(Users) \/ DailyEvent(Users) \/ ResumeEvent(Users) \/ StoreEvent
    \/ AdminEvent(Users)

\* the whole program
Spec == Init /\ [][Next]_vars

\* the guided flow with text and single-photo content, all users, on one day
SpecFlow == Init /\ [][FlowEvent(Users) \/ TextEvent(Users) \/ PhotoEvent(Users)]_vars

\* albums: the guided flow and the album photos of one user, the finalizer, the clock
SpecAlbum == Init /\ [][FlowEvent({1}) \/ AlbumEvent({1})]_vars

\* a failing database: text, single photos and album photos of one user, the
\* finalizer, the clock
SpecStore ==
    Init /\ [][TextEvent({1}) \/ PhotoEvent({1}) \/ AlbumEvent({1}) \/ StoreEvent]_vars

\* daily reconciliation: registration of all users, the guided flow and the text of
\* one user, the reconciliation job, midnight
SpecDaily == InitStored /\ [][FlowEvent({1}) \/ TextEvent({1}) \/ DailyEvent(Users)]_vars

\* the admin panel: registration, text and the reconciliation job of all users,
\* the buttons of the panel and the identifiers the admin types
SpecAdmin ==
    InitStored /\ [][\/ RecordsEvent(Users)
                     \/ \E u \in Users, action \in AdminActions : cb_admin(u, action)
                     \/ \E identifier \in IdentifierInputs : handle_text(ADMIN_ID, identifier)]_vars

\* every user presses the admin panel button and the buttons of the admin
\* keyboard, and types the identifier the admin would type, over a Store that
\* registrations, texts and the reconciliation job fill
GuardEvent ==
    \/ RecordsEvent(Users)
    \/ \E u \in Users : cmd_admin_panel(u, BTN_ADMIN_PANEL)
    \/ \E u \in Users, action \in AdminActions : cb_admin(u, action)
    \/ \E u \in Users : handle_text(u, TXT_ID_2)

SpecGuard == InitStored /\ [][GuardEvent]_vars

\* the purge: the registration, the text and the album photos of user 2, the
\* album finalizer, and delete_user_submissions applied to the Store they leave
SpecPurge == InitStored /\ [][SubmitEvent({2}) \/ AlbumEvent({2}) \/ PurgeEvent]_vars

\* the timed jobs: the users table holds user 1, who sends album photos without
\* caption; the album finalizer, the reminder and the reconciliation job and
\* their triggers
JobEvent ==
    \/ \E mgid \in MgIds : handle_photo(1, <<>>, mgid)
    \/ SweepStart
    \/ SweepSkip
    \/ \E ok \in BOOLEAN : SweepResume(ok)
    \/ Tick
    \/ ReminderStart
    \/ \E ok \in BOOLEAN : ReminderSent(ok)
    \/ AskStart
    \/ \E ok \in BOOLEAN : AskSent(ok)
    \/ \E job \in {"daily_reminder", "ask_missed_reason"} : JobSkip(job)

SpecJobs == InitStored /\ [][JobEvent]_vars

\* the evening of a day: the users U register and send text; the reminder job
\* and the report job of 23:55
EveningEvent(U) ==
    \/ SubmitEvent(U)
    \/ ReminderStart
    \/ \E ok \in BOOLEAN : ReminderSent(ok)
    \/ daily_admin_report

SpecEvening == InitStored /\ [][EveningEvent(Users)]_vars

\* long content: user 1 walks through the conspect flow and sends long texts,
\* long captions on single photos and on album photos; the finalizer and the clock
LongEvent ==
    \/ cmd_send_conspect(1, BTN_SEND_CONSPECT)
    \/ cb_section_choose(1, SEC_PYTHON)
    \/ cb_topic_choose(1, SEC_PYTHON, "op2")
    \/ \E text \in LongTextInputs : handle_text(1, text)
    \/ \E caption \in LongCaptionInputs, mgid \in MgIds \cup {None} :
          handle_photo(1, caption, mgid)
    \/ SweepStart
    \/ SweepSkip
    \/ \E ok \in BOOLEAN : SweepResume(ok)
    \/ Tick

SpecLong == Init /\ [][LongEvent]_vars

\* every intake event of one user: the guided flow, texts, single photos, album
\* photos, the finalizer and the clock
SpecIntake ==
    Init /\ [][FlowEvent({1}) \/ TextEvent({1}) \/ PhotoEvent({1}) \/ AlbumEvent({1})]_vars

\* the intake events of user u: the homework flow with one section and topic,
\* cancel, a plain and a keyword text, photos without caption alone or in an album
IntakeOf(u) ==
    \/ cmd_send_dz(u, BTN_SEND_DZ)
    \/ cb_section_choose(u, SEC_EGE)
    \/ cb_topic_choose(u, SEC_EGE, "ege1")
    \/ cb_cancel(u)
    \/ \E text \in {TXT_PLAIN, TXT_DZ} : handle_text(u, text)
    \/ \E mgid \in MgIds \cup {None} : handle_photo(u, <<>>, mgid)

\* user 1 is in the users table; either no job has run, or the reconciliation
\* job has just asked user 1 for a reason (ask_missing_reasons_job: the entry
\* reasons_pending[1] = today, the prompt was delivered, the job returned)
InitPair ==
    /\ Still
    /\ nextSweep = SweepSeconds
    /\ boot = Configured
    /\ users = ensure_user_record_obj(Empty, TgUser(1))
    /\ heap = Empty
    /\ pending = Empty
    /\ owner = Empty
    /\ \/ /\ reasons_pending = Empty
          /\ ask = [pc |-> "idle", dstr |-> 0, to_ask |-> {}, cur |-> 0]
          /\ run = [day |-> 0, users0 |-> {}, submitted0 |-> {}, reasons0 |-> {},
                    prompted |-> <<>>, failed |-> {}, done |-> FALSE]
          /\ last = [h |-> "init", u |-> 0, out |-> ""]
       \/ /\ reasons_pending = Put(Empty, 1, 1)
          /\ ask = [pc |-> "idle", dstr |-> 1, to_ask |-> {}, cur |-> 0]
          /\ run = [day |-> 1, users0 |-> {1}, submitted0 |-> {}, reasons0 |-> {},
                    prompted |-> <<[u |-> 1, date |-> 1]>>, failed |-> {},
                    done |-> TRUE]
          /\ last = [h |-> "AskSent", u |-> 1, out |-> "ok"]

\* two users at once: both send intake events while the clock advances and the
\* album finalizer runs
PairEvent ==
    \/ \E u \in Users : IntakeOf(u)
    \/ SweepStart
    \/ SweepResume(TRUE)
    \/ Tick

SpecPair == InitPair /\ [][PairEvent]_vars

\* the number of album photos sent while the finalizer is followed to its end
MaxPhotos == 3

\* albums of both users under one media_group_id, the interval trigger of the
\* finalizer and the passing of time, without a horizon
BufferEvent ==
    \/ \E u \in Users : nextMsg <= MaxPhotos /\ handle_photo(u, <<>>, "g1")
    \/ SweepStart
    \/ SweepSkip
    \/ SweepResume(TRUE)
    \/ Tick
    \/ TickLate

\* scheduler.add_job(process_media_groups, "interval", seconds=2): each due
\* trigger is served (the job starts, or the trigger is skipped while the
\* previous run is suspended); an awaited transport call returns or raises;
\* time passes
SpecLive ==
    /\ Init
    /\ [][BufferEvent]_vars
    /\ WF_vars(SweepStart \/ SweepSkip)
    /\ WF_vars(SweepResume(TRUE))
    /\ WF_vars(Tick \/ TickLate)

\* content for one complete PendingIntake: user 1 sends texts and single photos
\* while the handlers of the earlier ones are still suspended or have resumed
SpecRace ==
    InitIntake /\ [][TextEvent({1}) \/ PhotoEvent({1}) \/ ResumeEvent({1})]_vars

\* the start of the process in each environment; once it runs, user 2 (who is
\* the admin under no ADMIN_ID of AdminIdInputs) uses the flow and sends text
SpecStartup ==
    InitImport /\ [][\/ load_config
                     \/ boot.phase = "running" /\ (FlowEvent({2}) \/ TextEvent({2}))]_vars

(***************************************************************************)
(* Properties of the guided flow                                           *)
(***************************************************************************)
\* C3: after a cancel or a main-menu event of a user, no Submission is written
\* whose kind/section/topic come from a PendingIntake of that user created before
\* the event (text, single-photo and album emissions): no emission is stale.
C3_NoStaleEmission == \A i \in 1..Len(emitted) : ~emitted[i].stale

\* C4: from any intake state, the cancel callback and the main-menu button leave
\* the user with no PendingIntake and write no Submission.
C4_CancelAndMenuClear ==
    [][\A u \in Users :
          (cb_cancel(u) \/ \E text \in TextInputs : cmd_main_menu(u, text))
          => /\ u \notin DOMAIN pending'
             /\ submissions' = submissions]_vars

\* C6: when the user has a PendingIntake of kind dz and chooses a topic whose
\* dz_allowed is false, cb_topic_choose creates no Submission and leaves the
\* PendingIntake (kind, section, any topic chosen before) exactly as it was.
C6_TopicPolicyRejects ==
    [][\A u \in Users, t \in TopicInputs :
          (/\ cb_topic_choose(u, t[1], t[2])
           /\ u \in DOMAIN pending
           /\ heap[pending[u]].type = "dz"
           /\ ~FindTopic(t[1], t[2]).dz_allowed)
          => /\ submissions' = submissions
             /\ pending' = pending
             /\ heap'[pending'[u]] = heap[pending[u]]]_vars

\* a dz flow with a section and a topic chosen has just had a forbidden topic rejected
C6_Witness ==
    /\ last.h = "cb_topic_choose"
    /\ last.out = "rejected"
    /\ Complete(pending, heap, last.u)
    /\ heap[pending[last.u]].type = "dz"

\* C7: starting a flow while the user already has a PendingIntake replaces it: the
\* new PendingIntake holds the new kind and neither section nor topic, and the
\* start event writes no Submission.
C7_StartReplaces ==
    [][\A u \in Users, text \in TextInputs :
          /\ (cmd_send_dz(u, text) /\ u \in DOMAIN pending)
             => /\ u \in DOMAIN pending'
                /\ DOMAIN heap'[pending'[u]] = {"type", "ts"}
                /\ heap'[pending'[u]].type = "dz"
                /\ submissions' = submissions
          /\ (cmd_send_conspect(u, text) /\ u \in DOMAIN pending)
             => /\ u \in DOMAIN pending'
                /\ DOMAIN heap'[pending'[u]] = {"type", "ts"}
                /\ heap'[pending'[u]].type = "conspect"
                /\ submissions' = submissions]_vars

\* a flow was started over one that was already pending
C7_Witness ==
    /\ last.h \in {"cmd_send_dz", "cmd_send_conspect"}
    /\ last.out = "replaced"
    /\ last.u \in DOMAIN pending

(***************************************************************************)
(* Properties of the album aggregator                                      *)
(***************************************************************************)
\* every photo of arr arrived within the quiet interval of the one before it
WithinQuiet(arr) ==
    \A i \in 2..Len(arr) : (arr[i].t - arr[i - 1].t) * 10 <= QuietTenths

RECURSIVE IdsInOrder(_)
\* the file ids of arr, in arrival order, separated by ";"
IdsInOrder(arr) ==
    IF Len(arr) = 1 THEN arr[1].file_id
    ELSE IdsInOrder(SubSeq(arr, 1, Len(arr) - 1)) \o ";" \o arr[Len(arr)].file_id

\* the emissions made for album key k
EmissionsOf(k) == {i \in 1..Len(emitted) : emitted[i].path = "album" /\ emitted[i].key = k}

\* C1: N >= 1 photos of one user with the same media_group_id, each within the
\* quiet interval of the previous one: once the sweep has finalized the buffer
\* the Store holds exactly one Submission for the burst, of content_type
\* photo_album, whose photo_file_id is the ";"-join of the N ids in arrival order.
C1_BurstCoalescing ==
    \A k \in Keys :
        (/\ arrivals[k] # <<>>
         /\ WithinQuiet(arrivals[k])
         /\ EntryOf(media_groups, k) = 0)
        => /\ Cardinality(EmissionsOf(k)) = 1
           /\ \A i \in EmissionsOf(k) :
                 /\ emitted[i].id \in 1..Len(submissions)
                 /\ submissions[emitted[i].id].user_id = k[1]
                 /\ submissions[emitted[i].id].content_type = "photo_album"
                 /\ submissions[emitted[i].id].photo_file_id = IdsInOrder(arrivals[k])
           /\ Cardinality({j \in 1..Len(submissions) :
                              submissions[j].content_type = "photo_album"
                              /\ submissions[j].user_id = k[1]}) = 1

\* a burst of at least two photos, a second apart, has been finalized
C1_Witness ==
    \E k \in Keys :
        /\ Len(arrivals[k]) >= 2
        /\ arrivals[k][2].t > arrivals[k][1].t
        /\ WithinQuiet(arrivals[k])
        /\ EntryOf(media_groups, k) = 0
        /\ sweep.pc = "idle"

\* C2: the kind/section/topic of the Submission written for an album buffer are
\* those of the user's PendingIntake as it was when the first photo of the burst
\* arrived (the defaults when there was none), whatever happened to the
\* PendingIntake afterwards.
C2_DestinationCapturedOnce ==
    [][(Len(emitted') = Len(emitted) + 1 /\ emitted'[Len(emitted')].path = "album")
       => LET first == firstSeen[emitted'[Len(emitted')].key]
              s == submissions'[emitted'[Len(emitted')].id]
          IN /\ s.type = Get(first, "type", "dz")
             /\ s.section = Get(first, "section", NO_SECTION)
             /\ s.topic_id = Get(first, "topic", [id |-> "none", title |-> ALBUM_TITLE]).id
             /\ s.topic_title =
                   Get(first, "topic", [id |-> "none", title |-> ALBUM_TITLE]).title]_vars

\* C5: an album photo from a user in AwaitingContent is added to the album
\* buffer, writes no Submission, and consumes the user's PendingIntake.
C5_AlbumPhotoConsumesIntake ==
    [][\A u \in Users, caption \in CaptionInputs, mgid \in MgIds :
          (handle_photo(u, caption, mgid) /\ Complete(pending, heap, u))
          => /\ EntryOf(media_groups', <<u, mgid>>) # 0
             /\ submissions' = submissions
             /\ u \notin DOMAIN pending']_vars

PromptedUsers(r) == {r.prompted[i].u : i \in 1..Len(r.prompted)}

\* C9: one run of ask_missed_reason prompts exactly the users of the Store without
\* a Submission dated today at its start, each at most once, and registers for
\* each prompted user a waiting-state mapped to that date; a user with such a
\* Submission is neither prompted nor registered by the run.
C9_ReconciliationTargets ==
    [][/\ \A i, j \in 1..Len(run'.prompted) :
             i # j => run'.prompted[i].u # run'.prompted[j].u
       /\ PromptedUsers(run') \subseteq run'.users0 \ run'.submitted0
       /\ \A i \in 1..Len(run'.prompted) : run'.prompted[i].date = run'.day
       /\ run'.done => PromptedUsers(run') = run'.users0 \ run'.submitted0
       /\ (run' # run /\ ~run'.done)
             => /\ run'.prompted[Len(run'.prompted)].u \in DOMAIN reasons_pending'
                /\ reasons_pending'[run'.prompted[Len(run'.prompted)].u] = run'.day
       /\ ask' # ask
             => \A u \in run'.submitted0 :
                   /\ (u \in DOMAIN reasons_pending') = (u \in DOMAIN reasons_pending)
                   /\ u \in DOMAIN reasons_pending
                         => reasons_pending'[u] = reasons_pending[u]]_vars

\* a run has ended that prompted a user and passed over one who had submitted
C9_Witness ==
    /\ run.done
    /\ run.prompted # <<>>
    /\ run.submitted0 \cap run.users0 # {}
    /\ ask.pc = "idle"

\* C10: a run of the reconciliation passes over the users who already have an
\* AbsenceReason or a Submission for its date, and prompts the users who have
\* neither.
C10_RerunExcludesAnswered ==
    /\ PromptedUsers(run) \cap (run.reasons0 \cup run.submitted0) = {}
    /\ run.done => PromptedUsers(run) = run.users0 \ (run.reasons0 \cup run.submitted0)

\* C11: a waiting-state (and so an AbsenceReason) for date D is only ever given
\* to a user without a Submission dated D; a user who submits while the run is
\* suspended at a send, before the loop reaches them, gets no waiting-state.
C11_NoPromptAfterSubmission ==
    [][(run' # run /\ ~run'.done)
       => run'.prompted[Len(run'.prompted)].u \notin submitted_uids(submissions, run'.day)]_vars

\* C12: the Store never holds two AbsenceReasons for one (user_id, date); an
\* answer for a date that already has a reason replaces it, so the stored reason
\* is the text of the latest answer; the runs of the reconciliation themselves
\* write no reason.
C12_OneReasonPerUserAndDate ==
    [][/\ \A r1, r2 \in miss_reasons' :
             (r1.user_id = r2.user_id /\ r1.date = r2.date) => r1 = r2
       /\ \A u \in Users, text \in TextInputs :
             (handle_text(u, text) /\ u \in DOMAIN reasons_pending /\ text # BTN_STATS)
             => miss_reason_of(miss_reasons', u, reasons_pending[u]) = {Strip(text)}
       /\ ask' # ask => miss_reasons' = miss_reasons]_vars

\* a user who had a reason for the date of the run, and was prompted again by
\* the run, has just answered again
C12_Witness ==
    /\ last.h = "handle_text"
    /\ last.out = "reason"
    /\ last.u \in run.reasons0 \cap PromptedUsers(run)
    /\ today = run.day
    /\ miss_reason_of(miss_reasons, last.u, run.day) # {}

\* C13: when the send of the prompt to a user fails, that user has no
\* waiting-state afterwards, and the run still registers and prompts every
\* other user it set out to ask.
C13_FailOpen ==
    /\ run.failed \cap DOMAIN reasons_pending = {}
    /\ run.done => PromptedUsers(run) = run.users0 \ run.submitted0

\* a run has ended in which the prompt to one user failed and another user was
\* prompted after that
C13_Witness ==
    /\ run.done
    /\ \E i, j \in 1..Len(run.prompted) :
          /\ i < j
          /\ run.prompted[i].u \in run.failed
          /\ run.prompted[j].u \notin run.failed
          /\ run.prompted[j].u \in DOMAIN reasons_pending

(***************************************************************************)
(* Properties of the Store                                                 *)
(***************************************************************************)
\* C14: whenever add_submission_obj fails to persist a Submission (text, single
\* photo, fallback or album path), the user is not sent the praise reply but is
\* told that the submission may not have been recorded.
C14_StoreFailureReported ==
    \A i \in 1..Len(emitted) : ~emitted[i].saved => emitted[i].reply = "warning"

(***************************************************************************)
(* Properties of the finalizer                                             *)
(***************************************************************************)
\* C15: a photo that arrives for a key while the finalization of that key is
\* suspended is never appended to the buffer being finalized and then lost: the
\* buffer the finalizer removes holds exactly the photos of the Submission it
\* wrote.
C15_FinalizationClaimsBuffer ==
    [][\A ok \in BOOLEAN :
          SweepResume(ok)
          => \E j \in 1..Len(submissions) :
                /\ submissions[j].content_type = "photo_album"
                /\ submissions[j].photo_file_id =
                      JoinSemi(media_groups[EntryOf(media_groups, sweep.cur)].file_ids)]_vars

\* the number of gaps longer than the quiet interval between consecutive photos
LongGaps(arr) ==
    Cardinality({i \in 2..Len(arr) : (arr[i].t - arr[i - 1].t) * 10 > QuietTenths})

\* C16: the photos of one user under one media_group_id whose arrival times
\* contain k gaps longer than the quiet interval yield k + 1 Submissions once
\* their buffers are finalized, whatever the phase of the sweep.
C16_GapSplitting ==
    \A k \in Keys :
        (arrivals[k] # <<>> /\ EntryOf(media_groups, k) = 0 /\ sweep.pc = "idle")
        => Cardinality(EmissionsOf(k)) = LongGaps(arrivals[k]) + 1

\* the album Submissions of the Store
AlbumRows == {j \in 1..Len(submissions) : submissions[j].content_type = "photo_album"}

\* the ";"-join of the file ids of arrivals a..b of arr
Segment(arr, a, b) == JoinSemi([i \in 1..(b - a + 1) |-> arr[a + i - 1].file_id])

\* the photo the buffer of album Submission j began with
FirstPhotoOf(j) ==
    {arrivals[k][a].file_id : <<k, a>> \in
        {<<k, a>> \in Keys \X (1..MaxMsgs) :
            /\ a <= Len(arrivals[k])
            /\ \E b \in a..Len(arrivals[k]) :
                  submissions[j].photo_file_id = Segment(arrivals[k], a, b)}}

\* C17: at-most-once finalization.  A buffer whose Submission has been written
\* is in media_groups only while its finalization is in progress (it is removed
\* when the finalization ends, whether the awaits after the write succeeded or
\* raised), and no two album Submissions come from the same buffer.
C17_AtMostOnceFinalization ==
    /\ \A i, j \in AlbumRows : FirstPhotoOf(i) \cap FirstPhotoOf(j) # {} => i = j
    /\ \A e \in 1..Len(media_groups) :
          (\E j \in AlbumRows : media_groups[e].file_ids[1] \in FirstPhotoOf(j))
          => (sweep.pc = "emitted" /\ sweep.cur = media_groups[e].key)
    /\ \A j \in AlbumRows : FirstPhotoOf(j) # {}

\* two buffers have been finalized, each into one Submission, and both are gone
C17_Witness ==
    /\ Cardinality(AlbumRows) = 2
    /\ media_groups = <<>>
    /\ last.h = "SweepResume"
    /\ sweep.pc = "idle"

(***************************************************************************)
(* Properties of the reports and of the administration                     *)
(***************************************************************************)
\* the rows of submissions_for_date over the Store as it is, for date D
RowsFor(D) == submissions_for_date(users, submissions, miss_reasons, D)

\* user u has a Submission of this kind dated D
HasSubmission(u, kind, D) ==
    \E j \in 1..Len(submissions) :
        submissions[j].user_id = u /\ submissions[j].type = kind /\ submissions[j].date = D

\* C18: for any date D, submissions_for_date(D) returns exactly one row per user
\* of the Store; dz_submitted is 1 iff the user has a dz Submission dated D,
\* conspect_submitted is 1 iff the user has a conspect Submission dated D, and
\* miss_reason is the stored AbsenceReason for (user, D) or empty; a user with
\* no Submission and no reason has a row as well.
C18_ReportCompleteness ==
    \A D \in Days :
        /\ Len(RowsFor(D)) = Cardinality(DOMAIN users)
        /\ \A u \in DOMAIN users : \E i \in 1..Len(RowsFor(D)) : RowsFor(D)[i].user_id = u
        /\ \A i \in 1..Len(RowsFor(D)) :
              LET row == RowsFor(D)[i]
              IN /\ row.user_id \in DOMAIN users
                 /\ row.date = D
                 /\ row.dz_submitted = (IF HasSubmission(row.user_id, "dz", D) THEN 1 ELSE 0)
                 /\ row.conspect_submitted
                       = (IF HasSubmission(row.user_id, "conspect", D) THEN 1 ELSE 0)
                 /\ IF miss_reason_of(miss_reasons, row.user_id, D) = {}
                    THEN row.miss_reason = <<>>
                    ELSE miss_reason_of(miss_reasons, row.user_id, D) = {row.miss_reason}

\* the admin asked for the report of a day on which one user submitted homework
\* and another gave a reason: the report has a row for each
C18_Witness ==
    /\ last.h = "cb_admin"
    /\ last.out = "new_report"
    /\ Len(last.rows) = 2
    /\ \E i, j \in 1..Len(last.rows) :
          /\ last.rows[i].dz_submitted = 1
          /\ last.rows[i].miss_reason = <<>>
          /\ last.rows[j].dz_submitted = 0
          /\ last.rows[j].miss_reason # <<>>

\* user u has a row in one of the three tables
HasRecord(us, subs, mr, u) ==
    \/ u \in DOMAIN us
    \/ \E j \in 1..Len(subs) : subs[j].user_id = u
    \/ \E r \in mr : r.user_id = u

\* the three tables without the rows of user u
WithoutUser(us, subs, mr, u) ==
    <<Pop(us, u), SelectSeq(subs, LAMBDA r : r.user_id # u), {r \in mr : r.user_id # u}>>

\* C19: a delete_user_submissions that succeeds for U leaves no users row, no
\* Submission and no AbsenceReason of U and every row of the other users as it
\* was; and from then on the Store holds no record of U (the system behaves as
\* if U never existed) until U interacts again.
C19_PurgeCascade ==
    /\ [][\A identifier \in IdentifierInputs :
             (DeleteUser(identifier) /\ FindUser(users, identifier) # 0)
             => /\ ~HasRecord(users', submissions', miss_reasons', FindUser(users, identifier))
                /\ <<users', submissions', miss_reasons'>>
                      = WithoutUser(users, submissions, miss_reasons,
                                    FindUser(users, identifier))]_vars
    /\ [](\A u \in purged : ~HasRecord(users, submissions, miss_reasons, u))

\* C20: the admin delete flow completes.  When admin_pending of the admin is
\* delete_user and the admin sends a text that names an existing user, the
\* message is dispatched to admin_pending_text, the records of that user are
\* deleted from the Store and admin_pending of the admin is cleared.
C20_AdminDeleteCompletes ==
    [][\A identifier \in IdentifierInputs :
          (/\ handle_text(ADMIN_ID, identifier) \/ admin_pending_text(ADMIN_ID, identifier)
           /\ ADMIN_ID \in DOMAIN admin_pending
           /\ admin_pending[ADMIN_ID] = "delete_user"
           /\ FindUser(users, identifier) # 0)
          => /\ last'.h = "admin_pending_text"
             /\ ~HasRecord(users', submissions', miss_reasons', FindUser(users, identifier))
             /\ ADMIN_ID \notin DOMAIN admin_pending']_vars

\* C25: the keyword fallback never overrides an active flow.  A step that
\* records a Submission on the fallback path (the fallback's kind and the
\* default section and topic) for a text or caption of U is taken only when U
\* has no PendingIntake, complete or not.
C25_FallbackNeverOverridesFlow ==
    [][(/\ Len(emitted') = Len(emitted) + 1
        /\ emitted'[Len(emitted')].path = "fallback")
       => emitted'[Len(emitted')].u \notin DOMAIN pending]_vars

\* C30: guided-flow emission needs a complete PendingIntake.  A step of
\* handle_text or of the single-photo branch of handle_photo that records a
\* Submission on the flow path is taken only from a PendingIntake of the user
\* with a section and a topic, and the Submission carries that kind, section
\* and topic; a text (no menu button) or a single photo that arrives while the
\* PendingIntake lacks the section or the topic and does not start with a
\* keyword writes no Submission and leaves the PendingIntake as it was.
C30_FlowNeedsCompleteIntake ==
    [][/\ (/\ Len(emitted') = Len(emitted) + 1
           /\ emitted'[Len(emitted')].path = "flow")
          => LET u == emitted'[Len(emitted')].u
                 row == submissions'[Len(submissions')]
             IN /\ Complete(pending, heap, u)
                /\ Len(submissions') = Len(submissions) + 1
                /\ row.user_id = u
                /\ row.type = heap[pending[u]].type
                /\ row.section = heap[pending[u]].section
                /\ row.topic_id = heap[pending[u]].topic.id
                /\ row.topic_title = heap[pending[u]].topic.title
       /\ \A u \in Users :
             (/\ u \in DOMAIN pending
              /\ ~Complete(pending, heap, u)
              /\ \/ \E raw \in TextInputs \ MenuButtons :
                       ~HasKeyword(Strip(raw)) /\ handle_text(u, raw)
                 \/ \E caption \in CaptionInputs :
                       ~HasKeyword(caption) /\ handle_photo(u, caption, None))
             => /\ submissions' = submissions
                /\ u \in DOMAIN pending'
                /\ pending'[u] = pending[u]
                /\ heap'[pending[u]] = heap[pending[u]]]_vars

\* C30 witness: a text without keyword was answered with the hint while the
\* user's PendingIntake had a section but no topic, and nothing was stored
C30_Witness ==
    /\ last.h = "handle_text"
    /\ last.out = "hint"
    /\ last.u \in DOMAIN pending
    /\ "section" \in DOMAIN heap[pending[last.u]]
    /\ "topic" \notin DOMAIN heap[pending[last.u]]
    /\ submissions = <<>>

\* C28: stale button presses are no-ops.  A section button pressed by a user
\* without PendingIntake, and a topic button pressed by a user without
\* PendingIntake or whose PendingIntake has no section, leave pending (and the
\* PendingIntake it refers to), media_groups, reasons_pending and the Store as
\* they were; the user is only answered.
C28_StalePressIsNoOp ==
    [][\A u \in Users :
          (\/ /\ u \notin DOMAIN pending
              /\ \E section \in SectionInputs : cb_section_choose(u, section)
           \/ /\ u \notin DOMAIN pending \/ "section" \notin DOMAIN heap[pending[u]]
              /\ \E t \in TopicInputs : cb_topic_choose(u, t[1], t[2]))
          => /\ UNCHANGED <<pending, heap, media_groups, reasons_pending, store>>
             /\ last'.out = "no_flow"]_vars

\* C28 witness: a topic button was pressed while the PendingIntake of the user
\* had no section yet, and the press was answered as stale
C28_Witness ==
    /\ last.h = "cb_topic_choose"
    /\ last.out = "no_flow"
    /\ last.u \in DOMAIN pending
    /\ "section" \notin DOMAIN heap[pending[last.u]]

\* C26: lifetime and date binding of the waiting-state.  Once user U is
\* registered for date D the entry reasons_pending[U] = D changes only when U's
\* text consumes it, when the send of the prompt to U fails, or when a later
\* run of the job registers U again; the clock and the calendar never remove
\* it.  The reply that consumes it is stored as the AbsenceReason of (U, D),
\* also when it arrives on a later day, and the reason of the day of the reply
\* stays as it was.
C26_WaitingStateLifetime ==
    [][\A u \in Users :
          /\ (/\ u \in DOMAIN reasons_pending
              /\ \/ u \notin DOMAIN reasons_pending'
                 \/ reasons_pending'[u] # reasons_pending[u])
             => \/ /\ \E raw \in TextInputs : handle_text(u, raw)
                   /\ last'.out = "reason"
                   /\ u \notin DOMAIN reasons_pending'
                \/ /\ AskSent(FALSE)
                   /\ ask.cur = u
                \/ /\ AskStart \/ \E ok \in BOOLEAN : AskSent(ok)
                   /\ ask'.pc = "sending"
                   /\ ask'.cur = u
                   /\ reasons_pending'[u] = ask'.dstr
          /\ \A raw \in TextInputs :
                (/\ handle_text(u, raw)
                 /\ last'.out = "reason")
                => LET D == reasons_pending[u]
                   IN /\ miss_reason_of(miss_reasons', u, D) = {Strip(raw)}
                      /\ \A d \in Days \ {D} :
                            miss_reason_of(miss_reasons', u, d)
                               = miss_reason_of(miss_reasons, u, d)]_vars

\* C26 witness: a user registered for day 1 replied on day 2; the reason is
\* stored for day 1 and no reason is stored for day 2
C26_Witness ==
    /\ last.h = "handle_text"
    /\ last.out = "reason"
    /\ today = 2
    /\ miss_reason_of(miss_reasons, last.u, 1) # {}
    /\ miss_reason_of(miss_reasons, last.u, 2) = {}
    /\ last.u \notin DOMAIN reasons_pending

\* the last non-empty caption among arrivals a..b of arr, <<>> when none has one
LastCaption(arr, a, b) ==
    LET S == {i \in a..b : arr[i].caption # <<>>}
    IN IF S = {} THEN <<>> ELSE arr[CHOOSE i \in S : \A j \in S : j <= i].caption

\* C27: the result of an album finalization.  The Submission written for a
\* buffer takes kind, section and topic from the PendingIntake object the
\* buffer holds as its snapshot (a field the object lacks takes its default),
\* and the defaults dz, 'Bez razdela', topic (none, 'Albom') when the user had
\* no PendingIntake at the first photo of the burst.  Its content_summary is
\* the last non-empty caption among the photos it records, or 'Albom iz N foto'
\* with N the number of those photos when none of them had a caption.
C27_AlbumResult ==
    /\ [][(/\ Len(emitted') = Len(emitted) + 1
           /\ emitted'[Len(emitted')].path = "album")
          => LET k == emitted'[Len(emitted')].key
                 entry == media_groups[EntryOf(media_groups, k)]
                 row == submissions'[Len(submissions')]
                 no_topic == [id |-> "none", title |-> ALBUM_TITLE]
             IN /\ Len(submissions') = Len(submissions) + 1
                /\ row.content_type = "photo_album"
                /\ (firstSeen[k] = NoIntake) <=> (entry.pending_snapshot = 0)
                /\ IF firstSeen[k] = NoIntake
                   THEN /\ row.type = "dz"
                        /\ row.section = NO_SECTION
                        /\ row.topic_id = "none"
                        /\ row.topic_title = ALBUM_TITLE
                   ELSE LET snap == heap[entry.pending_snapshot]
                        IN /\ row.type = Get(snap, "type", "dz")
                           /\ row.section = Get(snap, "section", NO_SECTION)
                           /\ row.topic_id = Get(snap, "topic", no_topic).id
                           /\ row.topic_title = Get(snap, "topic", no_topic).title]_vars
    /\ [](\A j \in AlbumRows : \A k \in Keys : \A a, b \in 1..Len(arrivals[k]) :
             (a <= b /\ submissions[j].photo_file_id = Segment(arrivals[k], a, b))
             => submissions[j].content_summary
                   = IF LastCaption(arrivals[k], a, b) # <<>>
                     THEN LastCaption(arrivals[k], a, b)
                     ELSE ALBUM_OF \o IntToText(b - a + 1) \o ALBUM_PHOTOS)

\* C27 witness: an album of two photos, the first with a caption and the second
\* without, sent by a user without PendingIntake, was finalized with the
\* defaults and that caption
C27_Witness ==
    \E j \in AlbumRows : \E k \in Keys :
        /\ Len(arrivals[k]) = 2
        /\ arrivals[k][1].caption # <<>>
        /\ arrivals[k][2].caption = <<>>
        /\ submissions[j].photo_file_id = Segment(arrivals[k], 1, 2)
        /\ submissions[j].content_summary = arrivals[k][1].caption
        /\ firstSeen[k] = NoIntake
        /\ submissions[j].type = "dz"
        /\ submissions[j].topic_title = ALBUM_TITLE

C29_RemindOnlyMissing ==
    [][/\ (remind' # remind /\ remind'.pc = "sending")
          => remind'.cur \notin submitted_uids(submissions, today_str)
       /\ (ReminderStart /\ db_up)
          => {remind'.cur} \cup {remind'.left[i] : i \in 1..Len(remind'.left)}
                = (DOMAIN users \ submitted_uids(submissions, today_str))
                  \cup (IF remind'.pc = "idle" THEN {0} ELSE {})
       /\ ReminderSent(FALSE)
          => remind' = IF remind.left = <<>>
                       THEN [pc |-> "idle", left |-> <<>>, cur |-> 0]
                       ELSE [pc |-> "sending", left |-> Tail(remind.left),
                             cur |-> Head(remind.left)]]_vars

\* C24: the daily scheduled report.  The job triggered at 23:55 invokes the
\* report generator for the day and hands the admin its table: one row per
\* user of the users table with the two flags and the reason.
C24_DailyReportHandsTable ==
    [][daily_admin_report
       => /\ last'.u = ADMIN_ID
          /\ last'.out = "table"
          /\ last'.rows = RowsFor(today_str)]_vars

(***************************************************************************)
(* Properties of the start-up                                              *)
(***************************************************************************)
\* C23: start-up aborts on missing required configuration.  The process
\* reaches the running state, with handlers and scheduler active, only when
\* API_TOKEN is set and ADMIN_ID is set to a number.
C23_StartupNeedsConfiguration ==
    boot.phase = "running"
    => /\ boot.API_TOKEN # ""
       /\ IsDigit(Strip(boot.ADMIN_ID_STR))

(***************************************************************************)
(* Properties of the stored fields                                         *)
(***************************************************************************)
\* C22: every Submission of the Store, whichever path wrote it (flow text,
\* flow photo, keyword fallback, album finalization), has a content_summary of
\* at most 300 characters.
C22_SummaryAtMost300 ==
    \A j \in 1..Len(submissions) : Len(submissions[j].content_summary) <= 300

(***************************************************************************)
(* Properties across handlers and users                                    *)
(***************************************************************************)
\* the emissions of the guided flow so far
FlowEmissions == {i \in 1..Len(emitted) : emitted[i].path = "flow"}

\* C31: exactly-once consumption under interleaving.  User 1 has one complete
\* PendingIntake and sends texts and single photos, whose handlers interleave
\* at their awaits.  At most one Submission is ever written on the flow path;
\* once a content event has been handled the PendingIntake is gone and exactly
\* one Submission carries its kind, section and topic; every other Submission
\* is a keyword fallback with the default target.
C31_ExactlyOnceConsumption ==
    /\ Cardinality(FlowEmissions) <= 1
    /\ (1 \in DOMAIN pending) <=> (FlowEmissions = {})
    /\ (last.h \in {"handle_text", "handle_photo"} /\ last.out # "stats")
       => 1 \notin DOMAIN pending
    /\ \A i \in 1..Len(emitted) :
          LET row == submissions[emitted[i].id]
          IN IF i \in FlowEmissions
             THEN /\ row.user_id = 1
                  /\ row.section = SEC_EGE
                  /\ row.topic_id = "ege1"
             ELSE /\ row.section = NO_SECTION
                  /\ row.topic_id = "none"

\* C31 witness: a photo arrived while the handler of the text that consumed
\* the PendingIntake was still suspended at its await; only the text emitted
C31_Witness ==
    /\ last.h = "handle_photo"
    /\ last.u = 1
    /\ last.out = "hint"
    /\ 1 \in refreshing
    /\ Len(emitted) = 1
    /\ emitted[1].path = "flow"
    /\ submissions[1].content_type = "text"
    /\ Len(submissions) = 1

\* C32: section/topic consistency.  Every Submission with a topic_id other
\* than 'none' has a topic that SECTIONS lists under the Submission's section.
C32_TopicBelongsToSection ==
    \A j \in 1..Len(submissions) :
        submissions[j].topic_id # "none"
        => FindTopic(submissions[j].section, submissions[j].topic_id) # NoTopic

\* C33: the global topic policy.  In every reachable state the Store holds no
\* Submission of kind dz whose topic_id names a topic of SECTIONS with
\* dz_allowed false.
C33_NoHomeworkOnForbiddenTopic ==
    \A j \in 1..Len(submissions) :
        submissions[j].type = "dz"
        => \A s \in DOMAIN SECTIONS : FindTopic(s, submissions[j].topic_id).dz_allowed

\* C33 witness: an album was finalized into a dz Submission with the topic the
\* user chose through the flow
C33_Witness ==
    \E j \in 1..Len(submissions) :
        /\ submissions[j].type = "dz"
        /\ submissions[j].topic_id = "ege1"
        /\ submissions[j].content_type = "photo_album"

\* C34: album finalization does not degrade the stored identity.  When the
\* sweep has finalized an album of a user who had a users row, that row holds
\* the username and first_name it held before the finalization (the values
\* last observed from the user), whether get_chat_member returned or raised.
C34_FinalizationKeepsIdentity ==
    (/\ last.h = "SweepResume"
     /\ sweep.pc = "idle"
     /\ emitted # <<>>
     /\ emitted[Len(emitted)].path = "album"
     /\ emitted[Len(emitted)].known # Empty)
    => /\ emitted[Len(emitted)].u \in DOMAIN users
       /\ users[emitted[Len(emitted)].u] = emitted[Len(emitted)].known

\* C35: referential integrity.  In every reachable state each Submission and
\* each AbsenceReason of the Store has a user_id for which a users row exists.
C35_ReferentialIntegrity ==
    /\ \A j \in 1..Len(submissions) : submissions[j].user_id \in DOMAIN users
    /\ \A r \in miss_reasons : r.user_id \in DOMAIN users

\* C36: no resurrection after purge.  While a user who was deleted has sent
\* no new event, the Store holds no users row, no Submission and no
\* AbsenceReason of that user.
C36_NoResurrection ==
    \A u \in purged :
        /\ u \notin DOMAIN users
        /\ \A j \in 1..Len(submissions) : submissions[j].user_id # u
        /\ \A r \in miss_reasons : r.user_id # u

\* what the bot holds for user b: the PendingIntake, the waiting-state, the album
\* buffers with the objects they hold as snapshot, the Submissions and the
\* AbsenceReasons
HeldFor(b) ==
    [intake   |-> IF b \in DOMAIN pending THEN heap[pending[b]] ELSE NoIntake,
     waiting  |-> IF b \in DOMAIN reasons_pending THEN {reasons_pending[b]} ELSE {},
     buffers  |-> SelectSeq(media_groups, LAMBDA e : e.key[1] = b),
     snapshots |-> [i \in {j \in 1..Len(media_groups) :
                              /\ media_groups[j].key[1] = b
                              /\ media_groups[j].pending_snapshot # 0}
                       |-> heap[media_groups[i].pending_snapshot]],
     rows     |-> SelectSeq(submissions, LAMBDA r : r.user_id = b),
     reasons  |-> {r \in miss_reasons : r.user_id = b}]

\* C37: per-user isolation.  An intake event of user a (flow start, section or
\* topic choice, cancel, text, photo, album item) leaves everything the bot
\* holds for another user b as it was: b's PendingIntake, waiting-state, album
\* buffers, Submissions and AbsenceReasons.  Album buffers are kept per sender
\* and media_group_id: a buffer holds only photos its own user sent under its
\* media_group_id, and an album Submission of a user records a run of photos
\* that user sent under one media_group_id, so two users whose albums carry the
\* same media_group_id get two buffers and two Submissions.
C37_PerUserIsolation ==
    /\ [][\A a, b \in Users : (a # b /\ IntakeOf(a)) => HeldFor(b)' = HeldFor(b)]_vars
    /\ [](\A i \in 1..Len(media_groups) :
            LET e == media_groups[i]
            IN /\ e.uid = e.key[1]
               /\ \A j \in 1..Len(media_groups) : media_groups[j].key = e.key => j = i
               /\ \A n \in 1..Len(e.file_ids) :
                     \E m \in 1..Len(arrivals[e.key]) :
                         arrivals[e.key][m].file_id = e.file_ids[n])
    /\ [](\A j \in AlbumRows :
            \E k \in Keys : \E x, y \in 1..Len(arrivals[k]) :
                /\ k[1] = submissions[j].user_id
                /\ x <= y
                /\ submissions[j].photo_file_id = Segment(arrivals[k], x, y))

\* C37 witness: both users sent an album under media_group_id g1, user 1 while
\* in the waiting-state; each album became a Submission of its own sender, and
\* user 1 is still in the waiting-state
C37_Witness ==
    /\ 1 \in DOMAIN reasons_pending
    /\ \E i, j \in AlbumRows :
          /\ submissions[i].user_id = 1
          /\ submissions[j].user_id = 2
          /\ \E x \in 1..Len(arrivals[<<1, "g1">>]) :
                submissions[i].photo_file_id = Segment(arrivals[<<1, "g1">>], 1, x)
          /\ \E y \in 1..Len(arrivals[<<2, "g1">>]) :
                submissions[j].photo_file_id = Segment(arrivals[<<2, "g1">>], 1, y)

\* the album buffer of key k is in media_groups
HasBuffer(k) == EntryOf(media_groups, k) # 0

\* C38: buffer liveness.  While the interval trigger of the finalizer keeps being
\* served and every awaited transport call returns or fails, every album buffer
\* in media_groups is eventually removed, and when it is removed the Store holds
\* the album Submission made from it: a row of the buffer's user that records
\* the photos the buffer held when the finalizer took it.  No buffer stays in
\* media_groups forever.
C38_BufferLiveness ==
    /\ \A k \in Keys : HasBuffer(k) ~> ~HasBuffer(k)
    /\ [][\A k \in Keys : (HasBuffer(k) /\ ~HasBuffer(k)')
            => LET entry == media_groups[EntryOf(media_groups, k)]
               IN \E j \in AlbumRows : \E n \in 1..Len(entry.file_ids) :
                     /\ submissions[j].user_id = k[1]
                     /\ submissions[j].photo_file_id
                           = JoinSemi(SubSeq(entry.file_ids, 1, n))]_vars

\* C38 witness: both users sent an album, the second one when the clock had
\* reached MaxTime; the finalizer has run to its end, both buffers are gone and
\* each album is a Submission
C38_Witness ==
    /\ media_groups = <<>>
    /\ sweep.pc = "idle"
    /\ \A k \in Keys : Len(arrivals[k]) > 0
    /\ \A k \in Keys : \E j \in AlbumRows :
          /\ submissions[j].user_id = k[1]
          /\ submissions[j].photo_file_id = Segment(arrivals[k], 1, Len(arrivals[k]))
    /\ \E k \in Keys : arrivals[k][1].t = MaxTime

\* an update of sender u was handled
EventOf(u) == nextMsg' = nextMsg + 1 /\ last'.u = u

\* C39: admin-only effects.  An event whose sender is not ADMIN_ID leaves every
\* users row, Submission and AbsenceReason in the Store (it may add or rewrite
\* its own), leaves admin_pending as it was, and produces no report or export:
\* the admin panel button and every button of the admin keyboard are refused.
\* admin_pending holds an action only for the admin.
C39_AdminOnlyEffects ==
    /\ [][\A u \in Users \ {ADMIN_ID} : EventOf(u)
            => /\ admin_pending' = admin_pending
               /\ DOMAIN users \subseteq DOMAIN users'
               /\ Len(submissions') >= Len(submissions)
               /\ SubSeq(submissions', 1, Len(submissions)) = submissions
               /\ \A r \in miss_reasons : \E q \in miss_reasons' :
                     q.user_id = r.user_id /\ q.date = r.date
               /\ last'.h \in {"cb_admin", "cmd_admin_panel"} => last'.out = "denied"
               /\ "rows" \notin DOMAIN last']_vars
    /\ [](DOMAIN admin_pending \subseteq {ADMIN_ID})

\* C39 witness: the Store holds a Submission and an AbsenceReason, the admin has
\* been asked for an identifier, and user 2 pressed a button of the admin
\* keyboard and was refused
C39_Witness ==
    /\ last.h = "cb_admin"
    /\ last.u = 2
    /\ last.out = "denied"
    /\ submissions # <<>>
    /\ miss_reasons # {}
    /\ users # Empty
    /\ ADMIN_ID \in DOMAIN admin_pending

====
